---- MODULE Spec2Model ----
(***************************************************************************)
(* OrderWatch front end: the API service (services/api.js) and the part of *)
(* App.jsx that drives it.  The model follows the JavaScript event loop:   *)
(* one action is one synchronous run of code between two suspension points *)
(* (an await of fetch, of a body read, of a delay, or a timer).            *)
(***************************************************************************)
EXTENDS Integers, Sequences, FiniteSets, TLC

VARIABLES
    activeRequests, \* the Map activeRequests: a set of <<key, request id>> entries
    reqs,           \* the promises created by makeRequest, one record per slot
    tasks,          \* the JobClient calls in progress, one record per caller
    poll,           \* the run of pollScrapingProgress: its closure and its promise
    app             \* the React state of App that the handlers read and set

vars == <<activeRequests, reqs, tasks, poll, app>>

(***************************************************************************)
(* Bounds of the model.                                                    *)
(***************************************************************************)
MaxTasks == 2
MaxReqs == 3

(***************************************************************************)
(* Program constants.                                                      *)
(***************************************************************************)
MAX_RETRY_ATTEMPTS == 3
RETRY_DELAY == 1000

ENDPOINTS ==
    [HEALTH |-> "/api/health", SCRAPE |-> "/api/scrape", STATUS |-> "/api/status",
     RESULTS |-> "/api/results", STOP |-> "/api/stop"]

\* callers of the API from outside, then the callers inside the program: the poll
\* loop (this.getScrapingStatus, this.getResults), handleCancel and handleDateSubmit
Tasks == 1..MaxTasks
PollTask == MaxTasks + 1
CancelTask == MaxTasks + 2
SubmitTask == MaxTasks + 3
HealthTask == MaxTasks + 4
AllTasks == 1..(MaxTasks + 4)
ReqIds == 1..MaxReqs
\* no promise: a value outside ReqIds
NoReq == MaxReqs + 1

ABSENT == "(absent)"

(***************************************************************************)
(* sanitizeInput on a string: trim, then DOMPurify with no tag allowed.    *)
(* Strings are tokens; the ones the sanitizer changes are listed.          *)
(***************************************************************************)
sanitizeString(s) ==
    CASE s = " x " -> "x"
      [] s = "<b>x</b>" -> "x"
      [] s = "<b></b>" -> ""
      [] s = "  " -> ""
      [] OTHER -> s

RECURSIVE sanitizeSeqReversed(_)
sanitizeSeqReversed(q) ==
    IF q = <<>> THEN <<>>
    ELSE sanitizeSeqReversed(Tail(q)) \o <<sanitizeString(Head(q))>>

\* sanitizeInput on an array: input.map(sanitizeInput)
RECURSIVE sanitizeSeq(_)
sanitizeSeq(q) ==
    IF q = <<>> THEN <<>> ELSE <<sanitizeString(Head(q))>> \o sanitizeSeq(Tail(q))

(***************************************************************************)
(* Decoded response bodies.  One record shape for every endpoint; a key    *)
(* the server left out is ABSENT.  kind is "json" for a body served as     *)
(* application/json and "text" otherwise.                                  *)
(***************************************************************************)
BlankPayload ==
    [kind |-> "json", status |-> ABSENT, message |-> ABSENT, is_running |-> ABSENT,
     progressKind |-> ABSENT, progress |-> 0, error |-> ABSENT, results |-> ABSENT,
     success |-> ABSENT, ordersIsArray |-> FALSE, orders |-> <<>>]

sanitizeInput(p) ==
    [p EXCEPT !.status = sanitizeString(@), !.message = sanitizeString(@),
              !.error = sanitizeString(@), !.results = sanitizeString(@),
              !.orders = sanitizeSeq(@)]

TruthyButX(s) == s # ABSENT /\ s # "" /\ s # "x"

\* a string, or a key that may be missing, used as a condition
Truthy(s) == s # ABSENT /\ s # ""

(***************************************************************************)
(* class ApiError and the value a settled request promise holds: either    *)
(* the response data (ok) or the error thrown.                             *)
(***************************************************************************)
ApiError(message, status) ==
    [ok |-> FALSE, name |-> "ApiError", status |-> status, msg |-> message,
     data |-> BlankPayload, raw |-> BlankPayload]

\* raw is the body as the server sent it, before sanitizeInput
Resolved(data, raw) ==
    [ok |-> TRUE, name |-> "", status |-> 0, msg |-> "", data |-> data, raw |-> raw]

NoOutcome ==
    [ok |-> FALSE, name |-> "", status |-> 0, msg |-> "", data |-> BlankPayload,
     raw |-> BlankPayload]

(***************************************************************************)
(* Request options and the dedup key.                                      *)
(***************************************************************************)
\* options.body: undefined, or a JSON text.  y, m, d are the value the text spells;
\* form is how it spells it: "canon" as JSON.stringify writes the sanitized value,
\* "reordered" with the same keys in another order, "markup" with a string that
\* carries markup or outer blanks, which sanitizeInput strips.
NoBody == [form |-> "undefined", y |-> 0, m |-> 0, d |-> 0]

\* JSON.stringify({ date: sanitizedDate })
DateBody(date) == [form |-> "canon", y |-> date.y, m |-> date.m, d |-> date.d]

\* lines 100-108: JSON.parse, sanitizeInput, JSON.stringify written back to options
sanitizeBody(options) ==
    IF options.body.form \in {"undefined", "reordered"} THEN options
    ELSE [options EXCEPT !.body.form = "canon"]

\* JSON.stringify(options.body || {}): "{}" for no body, else the quoted string
StringifyBody(body) ==
    IF body.form = "undefined" THEN [text |-> "{}", of |-> NoBody]
    ELSE [text |-> "string", of |-> body]

getRequestKeyNoUrl(url, options) ==
    [method |-> IF options.method = "" THEN "GET" ELSE options.method,
     url |-> "",
     body |-> StringifyBody(options.body)]

\* `${options.method || 'GET'}:${url}:${JSON.stringify(options.body || {})}` (line 68)
getRequestKey(url, options) ==
    [method |-> IF options.method = "" THEN "GET" ELSE options.method,
     url |-> url,
     body |-> StringifyBody(options.body)]

MapHas(map, key) == \E e \in map : e[1] = key
MapGet(map, key) == (CHOOSE e \in map : e[1] = key)[2]
MapSet(map, key, r) == {e \in map : e[1] # key} \cup {<<key, r>>}
MapDelete(map, key) == {e \in map : e[1] # key}

(***************************************************************************)
(* The promise requestPromise of one makeRequest call that found no entry. *)
(* phase: free (slot unused), fetching (await fetch), readingOk and        *)
(* readingErr (await response.json() / text()), settled.                   *)
(* timer: the REQUEST_TIMEOUT timer is pending.                            *)
(* waiters: the callers awaiting the promise, in the order they attached.  *)
(* When a promise settles, the reactions of its waiters run as microtasks  *)
(* before any timer or network event, so they are part of the same step;   *)
(* a settled promise is kept only while the registry still holds it.       *)
(***************************************************************************)
NoKey == [method |-> "", url |-> "", body |-> StringifyBody(NoBody)]

FreeReq ==
    [phase |-> "free", key |-> NoKey, timer |-> FALSE, http |-> 0, waiters |-> <<>>,
     out |-> NoOutcome]

(***************************************************************************)
(* A JobClient call in progress.  pc: idle, waiting (await makeRequest),   *)
(* backoff (await delay), done.  attempt is makeRequestWithRetry's third   *)
(* parameter.  hist, delays, got, joined, att and created record what      *)
(* happened in the call: the status of each attempt's outcome (200 for a   *)
(* response that resolved), each backoff delay waited, the outcome of the  *)
(* latest makeRequest call and, for that call, the callers whose request   *)
(* for the same key was unsettled (with their attempt and promise), the    *)
(* promise awaited, whether the call created a promise of its own, and the *)
(* place of the caller among those the promise resumed when it settled.    *)
(* owner is the code that awaits the operation: an outside caller, the     *)
(* poll loop, handleCancel or handleDateSubmit.  No operation puts a jobId *)
(* in its result (lines 189-272), so the key stays ABSENT.                 *)
(***************************************************************************)
NoResult ==
    [returned |-> FALSE, success |-> FALSE, error |-> "", status |-> 0,
     data |-> BlankPayload, isRunning |-> FALSE, progress |-> 0, message |-> ABSENT,
     jobId |-> ABSENT]

\* { success: true, data: response, message }
Success(response, message) ==
    [NoResult EXCEPT !.returned = TRUE, !.success = TRUE, !.data = response,
                     !.message = message]

FailureUnnamed(error) ==
    [NoResult EXCEPT !.returned = TRUE, !.error = "Request failed", !.status = error.status]

\* { success: false, error: error.message, status: error.status || 0 }
Failure(error) ==
    [NoResult EXCEPT !.returned = TRUE, !.error = error.msg, !.status = error.status]

\* the argument of startScraping and the clock it read, kept for the record
NoDate == [type |-> "none", text |-> "", wrap |-> "none", y |-> 0, m |-> 0, d |-> 0]
NoClock == [y |-> 0, m |-> 0, d |-> 0, ms |-> 0]

IdleTask ==
    [op |-> "", owner |-> "", pc |-> "idle", url |-> "", options |-> [method |-> "", body |-> NoBody],
     attempt |-> 0, req |-> NoReq, hist |-> <<>>, delays |-> <<>>, got |-> NoOutcome,
     joined |-> {}, att |-> NoReq, created |-> FALSE, turn |-> 0, result |-> NoResult,
     arg |-> NoDate, now |-> NoClock]

(***************************************************************************)
(* The state the operations act on, as one record, so that the code run by *)
(* one step (a call, and the reactions a settling promise triggers) can be *)
(* composed.                                                               *)
(***************************************************************************)
St == [map |-> activeRequests, reqs |-> reqs, tasks |-> tasks, poll |-> poll, app |-> app]

Commit(S) ==
    /\ activeRequests' = S.map
    /\ reqs' = S.reqs
    /\ tasks' = S.tasks
    /\ poll' = S.poll
    /\ app' = S.app

HasFree(S) == \E r \in ReqIds : S.reqs[r].phase = "free"
NewSlot(S) == CHOOSE r \in ReqIds :
                 /\ S.reqs[r].phase = "free"
                 /\ \A q \in ReqIds : S.reqs[q].phase = "free" => r <= q

\* the callers other than t that await an unsettled promise of this key
Peers(S, t, key) ==
    {<<u, S.tasks[u].attempt, S.tasks[u].req>> :
        u \in {v \in AllTasks \ {t} : /\ S.tasks[v].pc = "waiting"
                                   /\ S.reqs[S.tasks[v].req].phase # "settled"
                                   /\ S.reqs[S.tasks[v].req].key = key}}

(***************************************************************************)
(* makeRequest(url, options) called by t (lines 86-181).  throws: a        *)
(* statement of the try block before the await of fetch raises (lines      *)
(* 100-131): catch and finally then run before line 179 registers the      *)
(* promise.  The value is the state after the call, the promise returned,  *)
(* the options as the call leaves them, and whether a promise was created. *)
(***************************************************************************)
clearTimeoutForgotten(request) == request

\* clearTimeout(timeoutId) (lines 133, 163): the timer of the request is pending no more
clearTimeout(request) == [request EXCEPT !.timer = FALSE]

registryMiss(map, requestKey) == FALSE

registryHit(map, requestKey) == MapHas(map, requestKey)

makeRequest(S, t, url, options, throws) ==
    LET requestKey == getRequestKey(url, options) IN
    IF registryHit(S.map, requestKey)
    THEN [S |-> S, req |-> MapGet(S.map, requestKey), options |-> options,
          created |-> FALSE]
    ELSE LET r == NewSlot(S)
             p == IF throws
                  THEN clearTimeout(
                          [phase |-> "settled", key |-> requestKey, timer |-> TRUE,
                           http |-> 0, waiters |-> <<>>,
                           out |-> ApiError("fetch is not defined", 0)])
                  ELSE [phase |-> "fetching", key |-> requestKey, timer |-> TRUE,
                        http |-> 0, waiters |-> <<>>, out |-> NoOutcome]
         IN [S |-> [S EXCEPT !.map = MapSet(MapDelete(@, requestKey), requestKey, r),
                             !.reqs[r] = p],
             req |-> r, options |-> sanitizeBody(options), created |-> TRUE]

CanCall(S, url, options) == MapHas(S.map, getRequestKey(url, options)) \/ HasFree(S)

HasField(response, key) ==
    CASE key = "status" -> response.status # ABSENT
      [] key = "message" -> response.message # ABSENT
      [] key = "is_running" -> response.is_running # ABSENT
      [] OTHER -> FALSE

\* `Missing required field: ${key}`
MissingField(key) ==
    CASE key = "status" -> "Missing required field: status"
      [] key = "message" -> "Missing required field: message"
      [] OTHER -> "Missing required field: is_running"

validateNothing(response, expectedKeys) == NoOutcome

\* validateResponse: the ApiError it throws, or NoOutcome when it returns true
validateResponse(response, expectedKeys) ==
    LET missing == {i \in 1..Len(expectedKeys) : ~HasField(response, expectedKeys[i])} IN
    IF response.kind # "json" THEN ApiError("Invalid response format", 0)
    ELSE IF missing # {}
    THEN ApiError(MissingField(expectedKeys[CHOOSE i \in missing :
                                                \A j \in missing : i <= j]), 0)
    ELSE NoOutcome

shouldRetryAlways(error) == TRUE

\* makeRequestWithRetry line 77
shouldRetry(error) ==
    error.status = 0 \/ error.status >= 500 \/ error.name = "AbortError"

RECURSIVE Pow2(_)
Pow2(n) == IF n <= 0 THEN 1 ELSE 2 * Pow2(n - 1)

retryDelayDoubled(attempt) == RETRY_DELAY * Pow2(attempt)

\* makeRequestWithRetry line 79
retryDelay(attempt) == RETRY_DELAY * Pow2(attempt - 1)

attemptsExhaustedLate(attempt) == attempt > MAX_RETRY_ATTEMPTS

\* makeRequestWithRetry line 76
attemptsExhausted(attempt) == attempt >= MAX_RETRY_ATTEMPTS

\* checkHealth lines 187-189 and startScraping lines 221-223, response in hand
AfterRetry(op, response) ==
    LET invalid == validateResponse(response,
                        IF op = "checkHealth" THEN <<"status">> ELSE <<"message">>)
    IN IF invalid # NoOutcome THEN Failure(invalid)
       ELSE Success(response, IF op = "checkHealth" THEN "Server is healthy"
                              ELSE "Scraping started successfully")

HistCode(out) == IF out.ok THEN 200 ELSE out.status

thrownPrevious(previous, error) == IF previous = NoOutcome THEN error ELSE previous

\* `throw error` (lines 76, 78): the error caught from this attempt, whatever the
\* attempt before it gave
thrown(previous, error) == error

RetryResumeNoDelay(S, t, out) ==
    LET tk == [S.tasks[t] EXCEPT !.req = NoReq, !.hist = Append(@, HistCode(out)),
                                 !.got = out]
    IN [S EXCEPT !.tasks[t] =
            IF out.ok THEN [tk EXCEPT !.pc = "done", !.result = AfterRetry(tk.op, out.data)]
            ELSE IF attemptsExhausted(tk.attempt) \/ ~shouldRetry(out)
            THEN [tk EXCEPT !.pc = "done",
                            !.result = Failure(thrown(S.tasks[t].got, out))]
            ELSE [tk EXCEPT !.pc = "backoff"]]

(***************************************************************************)
(* The await of makeRequest in makeRequestWithRetry resumes with out       *)
(* (lines 74-83); when makeRequestWithRetry returns or throws, the rest of *)
(* checkHealth or startScraping runs (lines 187-193, 221-227).             *)
(***************************************************************************)
RetryResume(S, t, out) ==
    LET tk == [S.tasks[t] EXCEPT !.req = NoReq, !.hist = Append(@, HistCode(out)),
                                 !.got = out]
    IN [S EXCEPT !.tasks[t] =
            IF out.ok
            THEN [tk EXCEPT !.pc = "done", !.result = AfterRetry(tk.op, out.data)]
            ELSE IF attemptsExhausted(tk.attempt) \/ ~shouldRetry(out)
            THEN [tk EXCEPT !.pc = "done",
                            !.result = Failure(thrown(S.tasks[t].got, out))]
            ELSE [tk EXCEPT !.pc = "backoff",
                            !.delays = Append(@, retryDelay(tk.attempt))]]

RECURSIVE CallIn(_, _, _, _)
RECURSIVE Resume(_, _, _, _)

Min(a, b) == IF a < b THEN a ELSE b
Max(a, b) == IF a > b THEN a ELSE b

\* Number(response.progress).  progressKind is the JSON type of the value: "num" a
\* number, "numeral" a string of digits spelling progress, "text" another string,
\* "true", "false", "null", or ABSENT for a missing key (undefined).
Number(response) ==
    CASE response.progressKind \in {"num", "numeral"} -> [nan |-> FALSE, n |-> response.progress]
      [] response.progressKind = "true" -> [nan |-> FALSE, n |-> 1]
      [] response.progressKind \in {"false", "null"} -> [nan |-> FALSE, n |-> 0]
      [] OTHER -> [nan |-> TRUE, n |-> 0]

clampProgressAbove(response) ==
    Min(100, IF Number(response).nan THEN 0 ELSE Number(response).n)

\* Math.max(0, Math.min(100, Number(response.progress) || 0)) (line 238)
clampProgress(response) ==
    Max(0, Min(100, IF Number(response).nan THEN 0 ELSE Number(response).n))

statusMessageOrEmpty(response) ==
    IF Truthy(sanitizeString(response.message)) THEN sanitizeString(response.message)
    ELSE ""

\* sanitizeInput(response.message) || 'Status retrieved successfully' (line 239)
statusMessage(response) ==
    IF Truthy(sanitizeString(response.message)) THEN sanitizeString(response.message)
    ELSE "Status retrieved successfully"

\* getScrapingStatus after its await (lines 233-244)
getScrapingStatus(out) ==
    IF ~out.ok THEN Failure(out)
    ELSE LET invalid == validateResponse(out.data, <<"is_running">>) IN
         IF invalid # NoOutcome THEN Failure(invalid)
         ELSE [Success(out.data, statusMessage(out.data)) EXCEPT
                  !.isRunning = (out.data.is_running = "true"),
                  !.progress = clampProgress(out.data)]

getResultsRethrows(out) ==
    IF ~out.ok THEN Failure(out)
    ELSE IF ~(out.data.kind = "json" /\ out.data.success = "true" /\ out.data.ordersIsArray)
    THEN NoResult
    ELSE Success(out.data, "Results retrieved successfully")

\* getResults after its await (lines 250-262)
getResults(out) ==
    IF ~out.ok THEN Failure(out)
    ELSE IF ~(out.data.kind = "json" /\ out.data.success = "true" /\ out.data.ordersIsArray)
    THEN Failure(ApiError("Results not ready", 202))
    ELSE Success(out.data, "Results retrieved successfully")

stopScrapingRethrows(out) ==
    IF ~out.ok THEN NoResult ELSE Success(out.data, "Scraping stopped successfully")

\* stopScraping after its await (lines 268-273)
stopScraping(out) ==
    IF ~out.ok THEN Failure(out) ELSE Success(out.data, "Scraping stopped successfully")

(***************************************************************************)
(* pollScrapingProgress.  started: the function was called; rejected: it   *)
(* threw (line 278); resolved and outcome: the promise it returned;        *)
(* pollCount, timer (a setTimeout(poll) is pending), onProgress and        *)
(* interval: the closure.  The other fields record the run: reported, the  *)
(* last snapshot handed to onProgress; firstDone, the first snapshot with  *)
(* isRunning false; calledResults, whether getResults was called;          *)
(* resolveCalls and statusCalls, how many times resolve and                *)
(* getScrapingStatus were called; callbackThrew, whether onProgress threw; *)
(* pending, the number of timers set by poll that have not fired, and     *)
(* delay, the delay the pending timer was set with; requested, the         *)
(* pollInterval argument of the call (given: an argument was passed);      *)
(* cancelledAt, the state of the loop when handleCancel last ran to its    *)
(* end; polledAfterCancel and tickAfterCancel, whether a status call or a  *)
(* setTimeout came after a handleCancel that found the loop polling.       *)
(***************************************************************************)
maxPolls == 300

NoSnapshot == [seen |-> FALSE, error |-> ABSENT, results |-> ABSENT]

NoProgress ==
    [called |-> FALSE, isRunning |-> FALSE, progress |-> 0, message |-> ABSENT,
     error |-> ABSENT, undecided |-> FALSE]

IdlePoll ==
    [started |-> FALSE, rejected |-> FALSE, resolved |-> FALSE, outcome |-> NoResult, inline |-> ABSENT,
     resolveCalls |-> 0, statusCalls |-> 0, progressCalls |-> 0,
     callbackThrew |-> FALSE,
     pollCount |-> 0, timer |-> FALSE, pending |-> 0,
     onProgress |-> "undefined", interval |-> 0, delay |-> 0,
     requested |-> [given |-> FALSE, ms |-> 0],
     reported |-> NoProgress, firstDone |-> NoSnapshot, calledResults |-> FALSE,
     cancelledAt |-> "never", polledAfterCancel |-> FALSE, tickAfterCancel |-> FALSE]

\* the states of the loop: Idle, Polling, and the outcomes of its promise
PollState(p) ==
    CASE ~p.started \/ p.rejected -> "Idle"
      [] ~p.resolved -> "Polling"
      [] p.outcome.success -> "Succeeded"
      [] p.outcome.error = "Polling timeout - operation took too long" -> "TimedOut"
      [] OTHER -> "Failed"

\* App.jsx lines 10-19: the state the handlers modelled here read and set.
\* serverHealth is null, or the result of the last health check by its success flag;
\* healthAtSubmit records what it was when handleDateSubmit last ran.
InitialApp ==
    [appState |-> "idle", loading |-> FALSE, jobId |-> "null", stopIssued |-> FALSE,
     error |-> "", results |-> "null", progress |-> 0, progressMessage |-> "",
     selectedDate |-> NoDate, serverHealth |-> "null", healthAtSubmit |-> "null"]

refusesNothing(onProgress) == FALSE

\* onProgress && typeof onProgress !== 'function' (line 277); "undefined" stands
\* for no argument, "function" and "throwing" are functions
refuses(onProgress) == onProgress \notin {"undefined", "function", "throwing"}

\* throw new ApiError('onProgress must be a function', 400) (line 278): the promise
\* of the call is rejected with the error, kept in outcome
pollRejected(S, onProgress) ==
    [S EXCEPT !.poll.started = TRUE, !.poll.rejected = TRUE,
              !.poll.onProgress = onProgress,
              !.poll.outcome = [NoResult EXCEPT !.error = "onProgress must be a function",
                                                !.status = 400]]

resolveKeepTimer(S, value, inline) ==
    [S EXCEPT !.poll.resolved = TRUE, !.poll.outcome = value, !.poll.inline = inline,
              !.poll.resolveCalls = @ + 1, !.poll.timer = TRUE]

\* resolve(value): only the first call settles the promise
resolve(S, value, inline) ==
    IF S.poll.resolved THEN [S EXCEPT !.poll.resolveCalls = @ + 1]
    ELSE [S EXCEPT !.poll.resolved = TRUE, !.poll.outcome = value, !.poll.inline = inline,
                   !.poll.resolveCalls = @ + 1]

scheduleTickTwice(S) == [S EXCEPT !.poll.timer = TRUE, !.poll.pending = @ + 2]

\* setTimeout(poll, safePollInterval) (lines 315, 321)
scheduleTick(S) ==
    [S EXCEPT !.poll.timer = TRUE, !.poll.pending = @ + 1,
              !.poll.delay = S.poll.interval,
              !.poll.tickAfterCancel = @ \/ (S.poll.cancelledAt = "Polling")]

\* this.getScrapingStatus() and this.getResults() called by poll (lines 232, 249)
pollCall(S, op, throws) ==
    CallIn([S EXCEPT !.poll.polledAfterCancel =
                        @ \/ (op = "getScrapingStatus" /\ S.poll.cancelledAt = "Polling"),
                     !.poll.statusCalls = IF op = "getScrapingStatus" THEN @ + 1 ELSE @,
                     !.poll.calledResults = @ \/ (op = "getResults")],
           PollTask,
           [IdleTask EXCEPT !.op = op, !.owner = "poll",
                            !.url = IF op = "getScrapingStatus" THEN ENDPOINTS.STATUS
                                    ELSE ENDPOINTS.RESULTS,
                            !.options = [method |-> "GET", body |-> NoBody],
                            !.attempt = 1],
           throws)

\* what the callback finds when it is called: the promise not resolved, no timer
\* set and no results call issued by the tick that calls it
undecided(S) ==
    /\ ~S.poll.resolved
    /\ ~S.poll.timer
    /\ S.tasks[PollTask].op = "getScrapingStatus"

callOnProgressUncaught(S, statusResponse) ==
    LET S1 == [S EXCEPT !.poll.reported =
                   [called |-> TRUE, isRunning |-> statusResponse.isRunning,
                    progress |-> statusResponse.progress,
                    message |-> statusResponse.data.message,
                    error |-> statusResponse.data.error,
                    undecided |-> undecided(S)],
                        !.poll.progressCalls = @ + 1]
    IN IF S.poll.onProgress # "throwing" THEN S1
       ELSE [S1 EXCEPT !.poll.callbackThrew = TRUE, !.poll.resolved = TRUE,
                       !.poll.resolveCalls = @ + 1,
                       !.poll.outcome = [NoResult EXCEPT !.returned = TRUE,
                                                         !.error = "callback failed"]]

\* lines 297-303: onProgress is called with the snapshot; what it throws is caught
\* and logged.  The callback "throwing" throws each time it is called.
callOnProgress(S, statusResponse) ==
    IF S.poll.onProgress = "undefined" THEN S
    ELSE [S EXCEPT !.poll.reported =
                      [called |-> TRUE, isRunning |-> statusResponse.isRunning,
                       progress |-> statusResponse.progress,
                       message |-> statusResponse.data.message,
                       error |-> statusResponse.data.error,
                       undecided |-> undecided(S)],
                   !.poll.progressCalls = @ + 1,
                   !.poll.callbackThrew = @ \/ (S.poll.onProgress = "throwing")]

doneVerdictNoInline(data) == IF Truthy(data.error) THEN "error" ELSE "getResults"

\* lines 305-313: what poll does with a snapshot whose isRunning is false
doneVerdict(data) ==
    IF Truthy(data.error) THEN "error"
    ELSE IF Truthy(data.results) THEN "inline"
    ELSE "getResults"

pollAfterStatusCallbackLast(S, statusResponse, throws) ==
    IF ~statusResponse.success
    THEN resolve(S, [NoResult EXCEPT !.returned = TRUE, !.error = statusResponse.error,
                                     !.status = statusResponse.status], ABSENT)
    ELSE LET data == statusResponse.data
             S1 == IF statusResponse.isRunning \/ S.poll.firstDone.seen THEN S
                   ELSE [S EXCEPT !.poll.firstDone =
                            [seen |-> TRUE, error |-> data.error, results |-> data.results]]
             S2 == IF ~statusResponse.isRunning
                   THEN CASE doneVerdict(data) = "error" ->
                               resolve(S1, [NoResult EXCEPT !.returned = TRUE,
                                               !.error = data.error,
                                               !.message = data.message], ABSENT)
                          [] doneVerdict(data) = "inline" ->
                               resolve(S1, [NoResult EXCEPT !.returned = TRUE,
                                               !.success = TRUE,
                                               !.message = "Scraping completed successfully"],
                                       data.results)
                          [] OTHER -> pollCall(S1, "getResults", throws)
                   ELSE scheduleTick(S1)
         IN callOnProgress(S2, statusResponse)

\* poll after `await this.getScrapingStatus()` (lines 292-321)
pollAfterStatus(S, statusResponse, throws) ==
    IF ~statusResponse.success
    THEN resolve(S, [NoResult EXCEPT !.returned = TRUE, !.error = statusResponse.error,
                                     !.status = statusResponse.status], ABSENT)
    ELSE LET data == statusResponse.data
             S0 == callOnProgress(S, statusResponse)
             S1 == IF statusResponse.isRunning \/ S.poll.firstDone.seen THEN S0
                   ELSE [S0 EXCEPT !.poll.firstDone =
                            [seen |-> TRUE, error |-> data.error, results |-> data.results]]
         IN IF ~statusResponse.isRunning
            THEN CASE doneVerdict(data) = "error" ->
                        resolve(S1, [NoResult EXCEPT !.returned = TRUE, !.error = data.error,
                                                     !.message = data.message], ABSENT)
                   [] doneVerdict(data) = "inline" ->
                        resolve(S1, [NoResult EXCEPT !.returned = TRUE, !.success = TRUE,
                                        !.message = "Scraping completed successfully"],
                                data.results)
                   [] OTHER -> pollCall(S1, "getResults", throws)
            ELSE scheduleTick(S1)

pollAfterResultsStuck(S, resultsResponse) ==
    IF ~resultsResponse.success THEN S ELSE resolve(S, resultsResponse, ABSENT)

\* poll after `await this.getResults()` (lines 314-319)
pollAfterResults(S, resultsResponse) ==
    IF ~resultsResponse.success THEN scheduleTick(S)
    ELSE resolve(S, resultsResponse, ABSENT)

\* handleCancel after `await apiService.stopScraping(jobId)` (App.jsx lines 90-96)
cancelToIdle(S) ==
    [S EXCEPT !.app.loading = FALSE, !.app.appState = "idle", !.app.jobId = "null",
              !.app.progress = 0, !.app.progressMessage = "", !.app.error = "",
              !.app.results = "null",
              !.poll.cancelledAt = PollState(S.poll)]

\* handleDateSubmit: catch and finally (App.jsx lines 79-84)
submitFails(S, message) ==
    [S EXCEPT !.app.error = IF Truthy(message) THEN message
                            ELSE "An unexpected error occurred",
              !.app.appState = "error", !.app.loading = FALSE]

\* handleDateSubmit after `await apiService.startScraping(date)` (App.jsx lines
\* 51-84).  Line 57 passes the job id where pollScrapingProgress takes onProgress:
\* a string that is not a function, for which the call throws (api.js line 278).
submitAfterStart(S, startResponse) ==
    IF ~startResponse.success \/ ~Truthy(startResponse.jobId)
    THEN submitFails(S, IF Truthy(startResponse.error) THEN startResponse.error
                        ELSE "Failed to start analysis")
    ELSE submitFails(pollRejected(
                        [S EXCEPT !.app.jobId = startResponse.jobId,
                                  !.app.progressMessage = "Analysis started successfully..."],
                        startResponse.jobId),
                     "onProgress must be a function")

healthBlocksApp(S, response) ==
    IF response.success THEN [S EXCEPT !.app.serverHealth = "success"]
    ELSE [S EXCEPT !.app.serverHealth = "failure", !.app.appState = "error",
                   !.app.error = "Service is temporarily unavailable. Please try again later."]

\* checkServerHealth after `await apiService.checkHealth()` (App.jsx lines 28-31)
healthReported(S, response) ==
    IF response.success THEN [S EXCEPT !.app.serverHealth = "success"]
    ELSE [S EXCEPT !.app.serverHealth = "failure",
                   !.app.error = "Service is temporarily unavailable. Please try again later."]

(***************************************************************************)
(* The reaction of caller t to the outcome out of the promise it awaited,  *)
(* up to the next suspension: the rest of the JobClient operation, then    *)
(* the code that awaited the operation.                                    *)
(***************************************************************************)
Resume(S, t, out, throws) ==
    LET tk == S.tasks[t] IN
    IF tk.op \in {"checkHealth", "startScraping"}
    THEN LET S1 == RetryResume(S, t, out) IN
         CASE tk.owner = "submit" /\ S1.tasks[t].pc = "done" ->
                 submitAfterStart(S1, S1.tasks[t].result)
           [] tk.owner = "health" /\ S1.tasks[t].pc = "done" ->
                 healthReported(S1, S1.tasks[t].result)
           [] OTHER -> S1
    ELSE LET res == CASE tk.op = "getScrapingStatus" -> getScrapingStatus(out)
                      [] tk.op = "getResults" -> getResults(out)
                      [] tk.op = "makeRequest" -> NoResult
                      [] OTHER -> stopScraping(out)
             S1 == [S EXCEPT !.tasks[t] =
                       [tk EXCEPT !.pc = "done", !.req = NoReq, !.got = out,
                                  !.hist = Append(@, HistCode(out)), !.result = res]]
         IN CASE tk.owner = "poll" /\ tk.op = "getScrapingStatus" ->
                    pollAfterStatus(S1, res, throws)
              [] tk.owner = "poll" /\ tk.op = "getResults" -> pollAfterResults(S1, res)
              [] tk.owner = "cancel" -> cancelToIdle(S1)
              [] OTHER -> S1

(***************************************************************************)
(* t, in state tk, calls makeRequest(tk.url, tk.options) and awaits the    *)
(* promise; a promise that is settled already resumes t at once.           *)
(***************************************************************************)
CallIn(S, t, tk, throws) ==
    LET m == makeRequest(S, t, tk.url, tk.options, throws)
        S1 == [m.S EXCEPT !.tasks =
                  [u \in AllTasks |->
                     IF u = t
                     THEN [tk EXCEPT !.pc = "waiting", !.req = m.req, !.turn = 0,
                                     !.options = m.options, !.att = m.req,
                                     !.created = m.created,
                                     !.joined = Peers(S, t, getRequestKey(tk.url, tk.options))]
                     ELSE [S.tasks[u] EXCEPT !.joined = {j \in @ : j[1] # t}]]]
    IN IF S1.reqs[m.req].phase = "settled"
       THEN Resume(S1, t, S1.reqs[m.req].out, throws)
       ELSE [S1 EXCEPT !.reqs[m.req].waiters = Append(@, t)]

\* the reactions waiters[i], waiters[i+1], ... run one after the other; turn is the
\* place of a caller among those the promise resumed
RECURSIVE ResumeFrom(_, _, _, _, _)
ResumeFrom(S, waiters, i, out, throws) ==
    IF i > Len(waiters) THEN S
    ELSE ResumeFrom(Resume([S EXCEPT !.tasks[waiters[i]].turn = i], waiters[i], out, throws),
                    waiters, i + 1, out, throws)

ResumeAllReversed(S, waiters, out, throws) ==
    ResumeFrom(S, [i \in 1..Len(waiters) |-> waiters[Len(waiters) + 1 - i]], 1, out, throws)

\* a settled promise runs its reactions in the order they were attached
ResumeAll(S, waiters, out, throws) == ResumeFrom(S, waiters, 1, out, throws)

\* the finally block (lines 174-176) deletes the key; the promise settles with out
\* and its waiters resume in the order they attached
SettleIn(S, r, out, throws) ==
    ResumeAll([S EXCEPT !.map = MapDelete(@, S.reqs[r].key),
                        !.reqs[r] = [FreeReq EXCEPT !.timer =
                                        IF out.ok THEN S.reqs[r].timer
                                        ELSE clearTimeout(S.reqs[r]).timer]],
              S.reqs[r].waiters, out, throws)

\* `HTTP ${response.status}: ${response.statusText}`
HttpText(status) ==
    CASE status = 400 -> "HTTP 400: Bad Request"
      [] status = 404 -> "HTTP 404: Not Found"
      [] status = 500 -> "HTTP 500: Internal Server Error"
      [] OTHER -> "HTTP error"

ResponseOk(status) == status >= 200 /\ status <= 299

\* lines 135-139; retryAfter is the Retry-After header, "" when the response has
\* none: it only words the message
rateLimited(retryAfter) ==
    ApiError(CASE retryAfter = "" -> "Rate limited. Please wait 5 seconds."
               [] retryAfter = "7" -> "Rate limited. Please wait 7 seconds."
               [] OTHER -> "Rate limited. Please wait N seconds.", 429)

\* fetch resolves with a response of the given status (lines 127-141)
FetchResponds(r, status, retryAfter, throws) ==
    /\ reqs[r].phase = "fetching"
    /\ IF status = 429
       THEN Commit(SettleIn(St, r, rateLimited(retryAfter), throws))
       ELSE Commit([St EXCEPT !.reqs[r] =
                              [clearTimeout(@) EXCEPT
                                  !.phase = IF ResponseOk(status) THEN "readingOk"
                                            ELSE "readingErr",
                                  !.http = status]])

\* lines 142-149: the message of the ApiError for a response that is not ok
httpError(status, payload, readable) ==
    ApiError(IF readable /\ Truthy(payload.error) THEN sanitizeString(payload.error)
             ELSE IF readable /\ Truthy(payload.message) THEN sanitizeString(payload.message)
             ELSE HttpText(status),
             status)

\* the body read completes (lines 142-161, 173); readable = FALSE: the read or the
\* parse fails
ReadBody(r, payload, readable, throws) ==
    /\ reqs[r].phase \in {"readingOk", "readingErr"}
    /\ Commit(SettleIn(St, r,
                  IF reqs[r].phase = "readingErr"
                  THEN httpError(reqs[r].http, payload, readable)
                  ELSE IF readable THEN Resolved(sanitizeInput(payload), payload)
                  ELSE ApiError("Unexpected token in JSON", 0),
                  throws))

\* fetch rejects: no response (lines 170-172)
FetchFails(r, throws) ==
    /\ reqs[r].phase = "fetching"
    /\ Commit(SettleIn(St, r,
                  ApiError("Unable to connect to server. Please check if the server is running.", 0),
                  throws))

abortErrorUnmapped ==
    [ApiError("The operation was aborted.", 0) EXCEPT !.name = "AbortError"]

\* lines 164-166
timeoutError == ApiError("Request timeout - server is taking too long to respond", 408)

\* the REQUEST_TIMEOUT timer fires: controller.abort(), fetch rejects with an
\* AbortError (line 96)
TimeoutFires(r, throws) ==
    /\ reqs[r].timer
    /\ reqs[r].phase = "fetching"
    /\ Commit(SettleIn(St, r, timeoutError, throws))

(***************************************************************************)
(* Dates.  A date argument is a value that is a string or not; a string is *)
(* digits in the shape dddd-dd-dd (text "ymd", with the numbers y, m, d it *)
(* spells), empty, or something else, and may be wrapped in white space or *)
(* markup that sanitizeInput removes.  An instant is NaN or a day number    *)
(* (days since the epoch, UTC) and the milliseconds into that day.         *)
(***************************************************************************)
Ymd(y, m, d) ==
    [type |-> "string", text |-> "ymd", wrap |-> "none", y |-> y, m |-> m, d |-> d]

\* sanitizeInput on the date argument (line 198)
sanitizeDate(date) ==
    IF date.type = "string" THEN [date EXCEPT !.wrap = "none"] ELSE date

\* /^\d{4}-\d{2}-\d{2}$/.test
MatchesIsoDate(date) == date.text = "ymd" /\ date.wrap = "none"

\* days from 1970-01-01 to the civil date y-m-d; a day past the month's end rolls over
DaysFromCivil(y, m, d) ==
    LET yy == IF m <= 2 THEN y - 1 ELSE y
        era == yy \div 400
        yoe == yy - era * 400
        mp == IF m > 2 THEN m - 3 ELSE m + 9
        doy == (153 * mp + 2) \div 5 + d - 1
        doe == yoe * 365 + yoe \div 4 - yoe \div 100 + doy
    IN era * 146097 + doe - 719468

IsLeap(y) == (y % 4 = 0 /\ y % 100 # 0) \/ y % 400 = 0

DaysInMonth(y, m) ==
    IF m = 2 THEN (IF IsLeap(y) THEN 29 ELSE 28)
    ELSE IF m \in {4, 6, 9, 11} THEN 30 ELSE 31

\* new Date(): the clock, as the UTC civil date and the milliseconds into the day
Today(now) == [nan |-> FALSE, day |-> DaysFromCivil(now.y, now.m, now.d), ms |-> now.ms]

NaN == [nan |-> TRUE, day |-> 0, ms |-> 0]
Instant(day, ms) == [nan |-> FALSE, day |-> day, ms |-> ms]
Midnight(y, m, d) == Instant(DaysFromCivil(y, m, d), 0)

\* new Date("yyyy-mm-dd"): UTC midnight.  A day of 29..31 that the month does not
\* have is NaN in one engine and rolls into the next month in another (rollover).
NewDate(date, rollover) ==
    IF /\ date.m >= 1 /\ date.m <= 12 /\ date.d >= 1
       /\ (date.d <= DaysInMonth(date.y, date.m) \/ (rollover /\ date.d <= 31))
    THEN Midnight(date.y, date.m, date.d)
    ELSE NaN

AfterOrSameDay(a, b) == ~a.nan /\ ~b.nan /\ a.day >= b.day

\* a > b on Date objects
After(a, b) ==
    /\ ~a.nan
    /\ ~b.nan
    /\ (a.day > b.day \/ (a.day = b.day /\ a.ms > b.ms))

\* startScraping lines 198-216: the ApiError thrown, or NoOutcome when the date passes
validateStartDate(date, now, rollover) ==
    LET sanitizedDate == sanitizeDate(date)
        dateObj == NewDate(sanitizedDate, rollover)
        today == Today(now)
        minDate == Midnight(2010, 1, 1)
    IN IF sanitizedDate.type # "string" \/ sanitizedDate.text = "empty"
       THEN ApiError("Date is required", 400)
       ELSE IF ~MatchesIsoDate(sanitizedDate)
       THEN ApiError("Invalid date format. Please use YYYY-MM-DD format.", 400)
       ELSE IF dateObj.nan THEN ApiError("Invalid date provided", 400)
       ELSE IF After(dateObj, today) THEN ApiError("Date cannot be in the future", 400)
       ELSE IF After(minDate, dateObj) THEN ApiError("Date cannot be before 2010", 400)
       ELSE NoOutcome

(***************************************************************************)
(* The entry points: each runs the operation up to its first suspension.   *)
(***************************************************************************)
\* checkHealth() (lines 184-186, 72-74)
CheckHealth(t, throws) ==
    /\ tasks[t].pc = "idle"
    /\ LET tk == [IdleTask EXCEPT !.op = "checkHealth", !.owner = "caller",
                                  !.url = ENDPOINTS.HEALTH,
                                  !.options = [method |-> "GET", body |-> NoBody],
                                  !.attempt = 1]
       IN /\ CanCall(St, tk.url, tk.options)
          /\ Commit(CallIn(St, t, tk, throws))

\* startScraping(date), to its return when the date is rejected (lines 196-220,
\* 224-227); now is the clock read by new Date()
StartScraping(t, date, now, rollover, throws) ==
    /\ tasks[t].pc = "idle"
    /\ LET invalid == validateStartDate(date, now, rollover)
           tk == [IdleTask EXCEPT !.op = "startScraping", !.owner = "caller",
                                  !.arg = date, !.now = now]
       IN IF invalid # NoOutcome
          THEN Commit([St EXCEPT !.tasks[t] =
                          [tk EXCEPT !.pc = "done", !.result = Failure(invalid)]])
          ELSE LET tc == [tk EXCEPT !.url = ENDPOINTS.SCRAPE,
                                    !.options = [method |-> "POST",
                                                 body |-> DateBody(sanitizeDate(date))],
                                    !.attempt = 1]
               IN /\ CanCall(St, tc.url, tc.options)
                  /\ Commit(CallIn(St, t, tc, throws))

\* the backoff delay has elapsed: makeRequestWithRetry(url, options, attempt + 1) (line 82)
BackoffElapsed(t, throws) ==
    /\ tasks[t].pc = "backoff"
    /\ CanCall(St, tasks[t].url, tasks[t].options)
    /\ Commit(CallIn(St, t, [tasks[t] EXCEPT !.attempt = @ + 1], throws))

\* getScrapingStatus(), getResults() or stopScraping() called from outside
\* (lines 230-232, 247-249, 265-267)
ApiCall(t, op, throws) ==
    /\ tasks[t].pc = "idle"
    /\ LET tk == [IdleTask EXCEPT
                    !.op = op, !.owner = "caller",
                    !.url = CASE op = "getScrapingStatus" -> ENDPOINTS.STATUS
                              [] op = "getResults" -> ENDPOINTS.RESULTS
                              [] OTHER -> ENDPOINTS.STOP,
                    !.options = [method |-> IF op = "stopScraping" THEN "POST" ELSE "GET",
                                 body |-> NoBody],
                    !.attempt = 1]
       IN /\ CanCall(St, tk.url, tk.options)
          /\ Commit(CallIn(St, t, tk, throws))

\* makeRequest(url, options) called by itself, with a body as a caller may pass it
MakeRequest(t, url, options) ==
    /\ tasks[t].pc = "idle"
    /\ LET tk == [IdleTask EXCEPT !.op = "makeRequest", !.owner = "caller", !.url = url,
                                  !.options = options, !.attempt = 1]
       IN /\ CanCall(St, tk.url, tk.options)
          /\ Commit(CallIn(St, t, tk, FALSE))

\* the parameter `pollInterval = 2000` (line 276): the argument, or 2000 when the
\* call passes none
pollIntervalOf(argument) == IF argument.given THEN argument.ms ELSE 2000

safePollIntervalNoFloor(pollInterval) == Min(10000, pollInterval)

\* Math.max(1000, Math.min(10000, pollInterval)) (line 280)
safePollInterval(pollInterval) == Max(1000, Min(10000, pollInterval))

\* pollScrapingProgress(onProgress, pollInterval) and the first run of poll
\* (lines 276-291)
PollStart(onProgress, pollInterval, throws) ==
    /\ ~poll.started
    /\ IF refuses(onProgress)
       THEN Commit(pollRejected(St, onProgress))
       ELSE
       Commit(pollCall([St EXCEPT !.poll.started = TRUE, !.poll.onProgress = onProgress,
                                  !.poll.requested = pollInterval,
                                  !.poll.interval =
                                      safePollInterval(pollIntervalOf(pollInterval)),
                                  !.poll.pollCount = 1],
                       "getScrapingStatus", throws))

budgetExceededLate(pollCount) == pollCount > maxPolls + 1

\* pollCount > maxPolls (line 287)
budgetExceeded(pollCount) == pollCount > maxPolls

countTickUnlessResults(p) == IF p.calledResults THEN p.pollCount ELSE p.pollCount + 1

\* pollCount++ (line 286)
countTick(p) == p.pollCount + 1

\* the timer set by setTimeout(poll, safePollInterval) fires: poll runs (lines 284-291)
PollTick(throws) ==
    /\ poll.timer
    /\ LET S == [St EXCEPT !.poll.timer = FALSE, !.poll.pending = @ - 1, !.poll.delay = 0,
                           !.poll.pollCount = countTick(poll)] IN
       IF budgetExceeded(S.poll.pollCount)
       THEN Commit(resolve(S, [NoResult EXCEPT
                                  !.returned = TRUE,
                                  !.error = "Polling timeout - operation took too long",
                                  !.status = 408], ABSENT))
       ELSE Commit(pollCall(S, "getScrapingStatus", throws))

\* handleCancel (App.jsx lines 87-96).  jobId is set only by line 54, which needs
\* startResponse.jobId, a key that no result of startScraping has (lines 223, 226).
HandleCancel(throws) ==
    /\ tasks[CancelTask].pc # "waiting"
    /\ IF app.jobId # "null"
       THEN Commit(CallIn([St EXCEPT !.app.stopIssued = TRUE], CancelTask,
                          [IdleTask EXCEPT !.op = "stopScraping", !.owner = "cancel",
                                           !.url = ENDPOINTS.STOP,
                                           !.options = [method |-> "POST", body |-> NoBody],
                                           !.attempt = 1],
                          throws))
       ELSE Commit(cancelToIdle(St))

\* checkServerHealth up to its first suspension (App.jsx lines 25-27): run when the
\* app is mounted (line 22) and from the button shown while serverHealth is a failure
\* (line 136)
CheckServerHealth(throws) ==
    /\ \/ tasks[HealthTask].pc = "idle"
       \/ tasks[HealthTask].pc = "done" /\ app.serverHealth = "failure"
    /\ LET tk == [IdleTask EXCEPT !.op = "checkHealth", !.owner = "health",
                                  !.url = ENDPOINTS.HEALTH,
                                  !.options = [method |-> "GET", body |-> NoBody],
                                  !.attempt = 1]
       IN /\ CanCall(St, tk.url, tk.options)
          /\ Commit(CallIn(St, HealthTask, tk, throws))

\* handleDateSubmit(date, formatted) up to its first suspension (App.jsx lines
\* 38-50, api.js lines 196-220).  The date picker that calls it is rendered when
\* the app is idle or in error and not loading (App.jsx line 152); one run at a
\* time is followed.
HandleDateSubmit(date, now, rollover, throws) ==
    /\ app.appState \in {"idle", "error"}
    /\ ~app.loading
    /\ tasks[SubmitTask].pc \in {"idle", "done"}
    /\ LET S == [St EXCEPT !.app.error = "", !.app.results = "null",
                           !.app.selectedDate = date, !.app.appState = "loading",
                           !.app.loading = TRUE, !.app.progress = 0,
                           !.app.progressMessage = "Initializing analysis...",
                           !.app.jobId = "null",
                           !.app.healthAtSubmit = app.serverHealth]
           invalid == validateStartDate(date, now, rollover)
           tk == [IdleTask EXCEPT !.op = "startScraping", !.owner = "submit",
                                  !.arg = date, !.now = now]
       IN IF invalid # NoOutcome
          THEN Commit(submitAfterStart(
                        [S EXCEPT !.tasks[SubmitTask] =
                            [tk EXCEPT !.pc = "done", !.result = Failure(invalid)]],
                        Failure(invalid)))
          ELSE LET tc == [tk EXCEPT !.url = ENDPOINTS.SCRAPE,
                                    !.options = [method |-> "POST",
                                                 body |-> DateBody(sanitizeDate(date))],
                                    !.attempt = 1]
               IN /\ CanCall(S, tc.url, tc.options)
                  /\ Commit(CallIn(S, SubmitTask, tc, throws))

(***************************************************************************)
(* What the server may answer.                                             *)
(***************************************************************************)
Statuses == {200, 400, 429, 500}

\* the results endpoint may also answer 202 Accepted while the job has no results yet
StatusesOf(r) ==
    IF reqs[r].key.url = ENDPOINTS.RESULTS THEN Statuses \cup {202} ELSE Statuses

ErrorBodies == {BlankPayload, [BlankPayload EXCEPT !.error = "boom"]}

StatusBodies ==
    {[BlankPayload EXCEPT !.is_running = "true", !.progressKind = "num", !.progress = 10,
                          !.message = "working"],
     [BlankPayload EXCEPT !.is_running = "false", !.progressKind = "num", !.progress = 90,
                          !.error = "x"],
     [BlankPayload EXCEPT !.is_running = "false", !.error = " x "],
     [BlankPayload EXCEPT !.is_running = "false", !.error = "  "],
     [BlankPayload EXCEPT !.is_running = "false", !.progressKind = "num", !.progress = 100,
                          !.results = "inline results"],
     [BlankPayload EXCEPT !.is_running = "false", !.progressKind = "num", !.progress = 100],
     BlankPayload}

ResultsBodies ==
    {[BlankPayload EXCEPT !.success = "true", !.ordersIsArray = TRUE],
     [BlankPayload EXCEPT !.success = "true", !.ordersIsArray = TRUE,
                          !.orders = <<"order a", " x ", "order b">>],
     [BlankPayload EXCEPT !.success = "false"],
     BlankPayload}

OkBodies(url) ==
    CASE url = ENDPOINTS.HEALTH ->
            {[BlankPayload EXCEPT !.status = "healthy"], BlankPayload}
      [] url = ENDPOINTS.SCRAPE ->
            {[BlankPayload EXCEPT !.message = "Scraping started"], BlankPayload}
      [] url = ENDPOINTS.STATUS -> StatusBodies
      [] url = ENDPOINTS.RESULTS -> ResultsBodies
      [] OTHER -> {[BlankPayload EXCEPT !.message = "Scraping stopped"], BlankPayload}

ResponseBodies(r) ==
    IF reqs[r].phase = "readingOk" THEN OkBodies(reqs[r].key.url) ELSE ErrorBodies

RetryAfters(status) == IF status = 429 THEN {"", "7"} ELSE {""}

\* the network and the request timers; throwChoices: whether a makeRequest call made
\* by a reaction may raise before its fetch
Transport(throwChoices) ==
    \/ \E r \in ReqIds, throws \in throwChoices : \E status \in StatusesOf(r) :
         \E retryAfter \in RetryAfters(status) : FetchResponds(r, status, retryAfter, throws)
    \/ \E r \in ReqIds, readable \in BOOLEAN, throws \in throwChoices :
         \E payload \in ResponseBodies(r) : ReadBody(r, payload, readable, throws)
    \/ \E r \in ReqIds, throws \in throwChoices : FetchFails(r, throws)
    \/ \E r \in ReqIds, throws \in throwChoices : TimeoutFires(r, throws)

Init ==
    /\ activeRequests = {}
    /\ reqs = [r \in ReqIds |-> FreeReq]
    /\ tasks = [t \in AllTasks |-> IdleTask]
    /\ poll = IdlePoll
    /\ app = InitialApp

(***************************************************************************)
(* Spec: MaxTasks outside callers of getScrapingStatus, getResults and     *)
(* stopScraping, which call makeRequest directly, running concurrently     *)
(* over the shared registry.                                               *)
(***************************************************************************)
DirectOps == {"getScrapingStatus", "getResults", "stopScraping"}

Next ==
    \/ \E t \in Tasks, op \in DirectOps, throws \in BOOLEAN : ApiCall(t, op, throws)
    \/ Transport({FALSE})

Spec == Init /\ [][Next]_vars

(***************************************************************************)
(* SpecRetry: one call of checkHealth or of startScraping, the operations  *)
(* that go through makeRequestWithRetry.                                   *)
(***************************************************************************)
Clocks == {[y |-> 2026, m |-> 11, d |-> 1, ms |-> 0],
           [y |-> 2026, m |-> 11, d |-> 1, ms |-> 43200000]}

DateInputs ==
    {Ymd(2009, 12, 31), Ymd(2010, 1, 1), Ymd(2015, 6, 1), Ymd(2026, 11, 1),
     Ymd(2026, 11, 2), Ymd(2027, 1, 1), Ymd(2015, 2, 30), Ymd(2015, 13, 1),
     [Ymd(2015, 6, 1) EXCEPT !.wrap = "spaces"],
     [Ymd(2009, 12, 31) EXCEPT !.wrap = "markup"],
     [NoDate EXCEPT !.type = "string", !.text = "06/01/2015"],
     [NoDate EXCEPT !.type = "string", !.text = "empty"],
     [NoDate EXCEPT !.type = "null"]}

NextRetry ==
    \/ \E throws \in BOOLEAN : CheckHealth(1, throws)
    \/ \E date \in DateInputs, now \in Clocks, rollover \in BOOLEAN, throws \in BOOLEAN :
            StartScraping(1, date, now, rollover, throws)
    \/ \E throws \in BOOLEAN : BackoffElapsed(1, throws)
    \/ Transport({FALSE})

SpecRetry == Init /\ [][NextRetry]_vars

(***************************************************************************)
(* SpecPoll: one run of pollScrapingProgress, called with a callback or   *)
(* with a job id in its place, and handleCancel.                           *)
(***************************************************************************)
PollIntervals == {[given |-> TRUE, ms |-> 2000]}

NextPoll ==
    \/ \E onProgress \in {"function", "job-1"}, pollInterval \in PollIntervals,
          throws \in BOOLEAN : PollStart(onProgress, pollInterval, throws)
    \/ \E throws \in BOOLEAN : PollTick(throws)
    \/ \E throws \in BOOLEAN : HandleCancel(throws)
    \/ Transport({FALSE})

SpecPoll == Init /\ [][NextPoll]_vars

(***************************************************************************)
(* SpecApp: the handlers of App, handleDateSubmit and handleCancel.  The   *)
(* date picker hands over dates it has validated (DatePicker.jsx lines     *)
(* 19-31, 43-47).                                                          *)
(***************************************************************************)
SubmitDates == {Ymd(2010, 1, 1), Ymd(2015, 6, 1), Ymd(2026, 11, 1)}

NextApp ==
    \/ \E date \in SubmitDates, now \in Clocks, rollover \in BOOLEAN, throws \in BOOLEAN :
            HandleDateSubmit(date, now, rollover, throws)
    \/ \E throws \in BOOLEAN : BackoffElapsed(SubmitTask, throws)
    \/ \E throws \in BOOLEAN : HandleCancel(throws)
    \/ Transport({FALSE})

SpecApp == Init /\ [][NextApp]_vars

(***************************************************************************)
(* SpecLoop: one run of pollScrapingProgress on its own.  SpecLoopFair     *)
(* is one such run under the assumption that a timer that is set fires and *)
(* that a request in flight gets its response, its failure or its timeout. *)
(***************************************************************************)
TimerFires == \E throws \in BOOLEAN : PollTick(throws)

NextLoop ==
    \/ \E onProgress \in {"undefined", "function", "throwing", "job-1"},
          pollInterval \in PollIntervals, throws \in BOOLEAN :
            PollStart(onProgress, pollInterval, throws)
    \/ TimerFires
    \/ Transport({FALSE})

SpecLoop == Init /\ [][NextLoop]_vars

\* the run SpecLoopFair follows: the call App.jsx makes, with a callback
NextRun ==
    \/ \E pollInterval \in PollIntervals : PollStart("function", pollInterval, FALSE)
    \/ PollTick(FALSE)
    \/ Transport({FALSE})

SpecLoopFair ==
    Init /\ [][NextRun]_vars /\ WF_vars(PollTick(FALSE)) /\ WF_vars(Transport({FALSE}))

(***************************************************************************)
(* SpecProgress: a call of getScrapingStatus and the first tick of a run   *)
(* of pollScrapingProgress with a callback, against a server whose status  *)
(* responses carry every kind of progress value, with a message or not.    *)
(***************************************************************************)
ProgressValues ==
    {[kind |-> "num", n |-> -5], [kind |-> "num", n |-> 0], [kind |-> "num", n |-> 55],
     [kind |-> "num", n |-> 100], [kind |-> "num", n |-> 150],
     [kind |-> "numeral", n |-> 150], [kind |-> "numeral", n |-> 7],
     [kind |-> "text", n |-> 0], [kind |-> "true", n |-> 0], [kind |-> "null", n |-> 0],
     [kind |-> ABSENT, n |-> 0]}

ProgressBodies ==
    {[BlankPayload EXCEPT !.is_running = running, !.progressKind = v.kind, !.progress = v.n,
                          !.message = message] :
        running \in {"true", "false"}, v \in ProgressValues, message \in {ABSENT, "working"}}

NextProgress ==
    \/ \E pollInterval \in PollIntervals : PollStart("function", pollInterval, FALSE)
    \/ ApiCall(1, "getScrapingStatus", FALSE)
    \/ \E r \in ReqIds, status \in {200, 500} : FetchResponds(r, status, "", FALSE)
    \/ \E r \in ReqIds : \E payload \in ProgressBodies \cup ResponseBodies(r) :
            ReadBody(r, payload, TRUE, FALSE)

SpecProgress == Init /\ [][NextProgress]_vars

(***************************************************************************)
(* SpecInterval: one run of pollScrapingProgress for each interval a       *)
(* caller may ask for, none included, against a server that reports the    *)
(* job running or failed.                                                  *)
(***************************************************************************)
RequestedIntervals ==
    {[given |-> FALSE, ms |-> 0]} \cup
    {[given |-> TRUE, ms |-> ms] : ms \in {-1, 0, 500, 999, 1000, 2000, 10000, 10001, 60000}}

NextInterval ==
    \/ \E pollInterval \in RequestedIntervals : PollStart("function", pollInterval, FALSE)
    \/ PollTick(FALSE)
    \/ \E r \in ReqIds : FetchResponds(r, 200, "", FALSE)
    \/ \E r \in ReqIds :
         \E payload \in {[BlankPayload EXCEPT !.is_running = "true"],
                          [BlankPayload EXCEPT !.is_running = "false", !.error = "x"]} :
            ReadBody(r, payload, TRUE, FALSE)

SpecInterval == Init /\ [][NextInterval]_vars

(***************************************************************************)
(* SpecStop: a call of stopScraping, and the handlers of App for one date: *)
(* a submission and the cancel button.                                     *)
(***************************************************************************)
NextStop ==
    \/ \E throws \in BOOLEAN : ApiCall(1, "stopScraping", throws)
    \/ \E now \in Clocks, throws \in BOOLEAN :
            HandleDateSubmit(Ymd(2015, 6, 1), now, FALSE, throws)
    \/ \E throws \in BOOLEAN : BackoffElapsed(SubmitTask, throws)
    \/ \E throws \in BOOLEAN : HandleCancel(throws)
    \/ Transport({FALSE})

SpecStop == Init /\ [][NextStop]_vars

(***************************************************************************)
(* SpecHealth: the health check App makes when it is mounted, and a        *)
(* submission of one date.                                                 *)
(***************************************************************************)
NextHealth ==
    \/ CheckServerHealth(FALSE)
    \/ BackoffElapsed(HealthTask, FALSE)
    \/ HandleDateSubmit(Ymd(2015, 6, 1), CHOOSE now \in Clocks : now.ms = 0, FALSE, FALSE)
    \/ BackoffElapsed(SubmitTask, FALSE)
    \/ Transport({FALSE})

SpecHealth == Init /\ [][NextHealth]_vars

(***************************************************************************)
(* SpecBody: makeRequest called with bodies that spell the same value in   *)
(* different texts.                                                        *)
(***************************************************************************)
Bodies ==
    {[form |-> f, y |-> 2015, m |-> 6, d |-> dd] :
        f \in {"canon", "reordered", "markup"}, dd \in {1, 2}}

NextBody ==
    \/ \E t \in Tasks, body \in Bodies :
          MakeRequest(t, ENDPOINTS.SCRAPE, [method |-> "POST", body |-> body])
    \/ Transport({FALSE})

SpecBody == Init /\ [][NextBody]_vars

(***************************************************************************)
(* SpecOps: the five operations of apiService, one that goes through       *)
(* makeRequestWithRetry and one that calls makeRequest, side by side.      *)
(***************************************************************************)
NextOps ==
    \/ \E throws \in BOOLEAN : CheckHealth(1, throws)
    \/ \E date \in {Ymd(2015, 6, 1), Ymd(2027, 1, 1)}, throws \in BOOLEAN :
          StartScraping(1, date, CHOOSE now \in Clocks : now.ms = 0, FALSE, throws)
    \/ \E op \in DirectOps, throws \in BOOLEAN : ApiCall(2, op, throws)
    \/ \E throws \in BOOLEAN : BackoffElapsed(1, throws)
    \/ Transport({FALSE})

SpecOps == Init /\ [][NextOps]_vars

(***************************************************************************)
(* SpecKeys: a health check, with its retries, and a status call made      *)
(* while it runs: two requests with different keys.                        *)
(***************************************************************************)
NextKeys ==
    \/ \E throws \in BOOLEAN : CheckHealth(1, throws)
    \/ \E throws \in BOOLEAN : ApiCall(2, "getScrapingStatus", throws)
    \/ \E throws \in BOOLEAN : BackoffElapsed(1, throws)
    \/ Transport({FALSE})

SpecKeys == Init /\ [][NextKeys]_vars

(***************************************************************************)
(* Properties of the request registry (Spec).                              *)
(***************************************************************************)
InFlight(r) == reqs[r].phase \in {"fetching", "readingOk", "readingErr"}

\* C1: when a call of makeRequest is made while another call with the same
\* (method, path, body) has not settled, no second promise and no second fetch are
\* created: the later caller awaits the promise of the earlier one, there is at
\* most one request in flight per key, and both callers receive the same outcome.
C1_SharedRequest ==
    /\ \A r, q \in ReqIds : InFlight(r) /\ InFlight(q) /\ reqs[r].key = reqs[q].key => r = q
    /\ \A t \in AllTasks : \A j \in tasks[t].joined :
         LET u == j[1] IN
         /\ ~tasks[t].created
         /\ tasks[t].att = j[3]
         /\ (tasks[u].attempt = j[2] /\ tasks[u].att = j[3]) =>
               /\ (tasks[t].pc = "done") = (tasks[u].pc = "done")
               /\ tasks[t].pc = "done" => tasks[t].got = tasks[u].got

C1_TwoCallersOneOutcome ==
    \E t, u \in Tasks :
        /\ t # u
        /\ <<u, tasks[u].attempt, tasks[t].att>> \in tasks[t].joined
        /\ tasks[t].pc = "done" /\ tasks[u].pc = "done"
        /\ tasks[u].created /\ ~tasks[t].created
        /\ tasks[t].got.ok /\ tasks[t].got = tasks[u].got

\* C2: the registry never holds the key of a request that has settled, whatever
\* the outcome (a response, an HTTP error, a timeout, a network failure, or an error
\* raised before the await of fetch).
C2_SettledKeyRemoved == \A e \in activeRequests : reqs[e[2]].phase # "settled"

(***************************************************************************)
(* Properties of makeRequestWithRetry (SpecRetry).                         *)
(***************************************************************************)
Retrying(tk) == tk.op \in {"checkHealth", "startScraping"} /\ tk.attempt >= 1

\* C3: one makeRequestWithRetry call makes at most 3 attempts; when every attempt
\* fails with HTTP 500 it makes exactly 3, and when the first attempt fails with
\* HTTP 400 it makes exactly 1.
C3_AttemptsBounded ==
    \A t \in Tasks : LET tk == tasks[t] IN Retrying(tk) =>
        /\ tk.attempt <= 3
        /\ Len(tk.hist) <= 3
        /\ (tk.pc = "done" /\ \A i \in 1..Len(tk.hist) : tk.hist[i] = 500) =>
              tk.attempt = 3 /\ Len(tk.hist) = 3
        /\ (tk.hist # <<>> /\ tk.hist[1] = 400) =>
              tk.attempt = 1 /\ Len(tk.hist) = 1 /\ tk.pc = "done"

C3_ThreeAttemptsOn500 ==
    \E t \in Tasks : /\ tasks[t].pc = "done"
                     /\ tasks[t].hist = <<500, 500, 500>>
                     /\ tasks[t].attempt = 3
                     /\ ~tasks[t].result.success

\* C4: an attempt that failed because the request timeout fired is followed by
\* another attempt when fewer than 3 attempts have been made.
C4_TimeoutRetried ==
    \A t \in Tasks : LET tk == tasks[t] IN
        (Retrying(tk) /\ tk.pc # "waiting" /\ tk.got = timeoutError /\ tk.attempt < 3) =>
            tk.pc = "backoff"

\* C5: an attempt answered with an HTTP 4xx status, 429 included, is the last one:
\* the call returns that error, no backoff follows it, and a 429 is turned into
\* the error as soon as the response arrives, whatever its Retry-After header.
C5_ClientErrorsNotRetried ==
    /\ \A r \in ReqIds : reqs[r].http # 429
    /\ \A t \in Tasks : LET tk == tasks[t] IN Retrying(tk) =>
         \A i \in 1..Len(tk.hist) : (tk.hist[i] >= 400 /\ tk.hist[i] <= 499) =>
            /\ i = Len(tk.hist)
            /\ tk.attempt = i
            /\ tk.pc = "done"
            /\ Len(tk.delays) = i - 1
            /\ ~tk.result.success
            /\ tk.result.status = tk.hist[i]
            /\ tk.result.error = tk.got.msg

C5_RateLimitedOnce ==
    \E t \in Tasks : /\ tasks[t].pc = "done"
                     /\ tasks[t].hist = <<429>>
                     /\ tasks[t].delays = <<>>
                     /\ tasks[t].result.error = "Rate limited. Please wait 7 seconds."

\* C6: the delay waited before attempt 2 is 1000 ms and before attempt 3 is 2000 ms,
\* twice as long: before attempt k it is 1000 * 2^(k-2).
C6_BackoffDoubles ==
    \A t \in Tasks : LET tk == tasks[t] IN Retrying(tk) =>
        /\ Len(tk.delays) = IF tk.pc = "backoff" THEN tk.attempt ELSE tk.attempt - 1
        /\ Len(tk.delays) >= 1 => tk.delays[1] = 1000
        /\ Len(tk.delays) >= 2 => tk.delays[2] = 2000 /\ tk.delays[2] = 2 * tk.delays[1]
        /\ \A k \in 2..(Len(tk.delays) + 1) : tk.delays[k - 1] = 1000 * 2^(k - 2)

C6_TwoBackoffs ==
    \E t \in Tasks : tasks[t].attempt = 3 /\ tasks[t].delays = <<1000, 2000>>

(***************************************************************************)
(* Properties of startScraping's date check (SpecRetry).                   *)
(***************************************************************************)
\* the argument spells dddd-dd-dd, possibly inside white space or markup
IsoShaped(date) == date.type = "string" /\ date.text = "ymd"
\* the argument is exactly dddd-dd-dd
StrictlyIsoShaped(date) == IsoShaped(date) /\ date.wrap = "none"
CalendarDate(date) == date.m \in 1..12 /\ date.d \in 1..DaysInMonth(date.y, date.m)
Before2010(date) == date.y < 2010
\* the date is a later day than the UTC day of the clock
AfterDay(date, now) ==
    \/ date.y > now.y
    \/ date.y = now.y /\ date.m > now.m
    \/ date.y = now.y /\ date.m = now.m /\ date.d > now.d

RejectedLocally(tk) ==
    /\ tk.pc = "done"
    /\ tk.result.returned /\ ~tk.result.success
    /\ tk.attempt = 0 /\ tk.hist = <<>> /\ ~tk.created /\ tk.att = NoReq
    /\ activeRequests = {}
    /\ \A r \in ReqIds : reqs[r] = FreeReq

Posted(tk) ==
    /\ tk.attempt >= 1
    /\ tk.url = ENDPOINTS.SCRAPE
    /\ tk.options.method = "POST"
    /\ tk.options.body = DateBody(tk.arg)

\* C7 (as amended): startScraping returns a failure, without a makeRequest call and
\* without a registry entry, for an argument that is not YYYY-MM-DD once sanitizeInput
\* has trimmed it and removed its markup, and for a calendar date before 2010-01-01 or
\* after the current UTC day; for a calendar date within the range it issues the POST.
C7_DateCheckedAfterSanitizing ==
    \A t \in Tasks : LET tk == tasks[t] IN tk.op = "startScraping" =>
        /\ (\/ ~IsoShaped(tk.arg)
            \/ CalendarDate(tk.arg) /\ (Before2010(tk.arg) \/ AfterDay(tk.arg, tk.now)))
              => RejectedLocally(tk)
        /\ (IsoShaped(tk.arg) /\ CalendarDate(tk.arg)
              /\ ~Before2010(tk.arg) /\ ~AfterDay(tk.arg, tk.now))
              => Posted(tk)

C7_EarlyDateRejected ==
    \E t \in Tasks : /\ tasks[t].arg = Ymd(2009, 12, 31)
                     /\ RejectedLocally(tasks[t])
                     /\ tasks[t].result.error = "Date cannot be before 2010"

\* C7 (as stated): startScraping returns a failure, without a makeRequest call and
\* without a registry entry, for every string that is not YYYY-MM-DD.
C7_DateCheckedAsGiven ==
    \A t \in Tasks : LET tk == tasks[t] IN tk.op = "startScraping" =>
        /\ (\/ ~StrictlyIsoShaped(tk.arg)
            \/ CalendarDate(tk.arg) /\ (Before2010(tk.arg) \/ AfterDay(tk.arg, tk.now)))
              => RejectedLocally(tk)
        /\ (StrictlyIsoShaped(tk.arg) /\ CalendarDate(tk.arg)
              /\ ~Before2010(tk.arg) /\ ~AfterDay(tk.arg, tk.now))
              => Posted(tk)

(***************************************************************************)
(* Properties of the poll loop (SpecPoll).                                 *)
(***************************************************************************)
\* C8: after handleCancel has run while the loop was polling, a stop call has been
\* issued, the loop is not polling any more, and no status call is made and no
\* tick is scheduled from then on.
C8_CancelStopsLoop ==
    poll.cancelledAt = "Polling" =>
        /\ app.stopIssued
        /\ PollState(poll) # "Polling"
        /\ ~poll.polledAfterCancel
        /\ ~poll.tickAfterCancel

\* C9: when the first snapshot with isRunning false carries a non-empty error, the
\* loop has ended Failed with that error, getResults was not called, and no call
\* and no tick of the loop is pending.
C9_JobErrorFails ==
    (poll.firstDone.seen /\ poll.firstDone.error \notin {ABSENT, ""}) =>
        /\ PollState(poll) = "Failed"
        /\ poll.outcome.error = poll.firstDone.error
        /\ ~poll.calledResults
        /\ ~poll.timer
        /\ tasks[PollTask].pc = "done"
        /\ tasks[PollTask].op = "getScrapingStatus"

C9_FailedWithX ==
    /\ poll.firstDone.seen
    /\ poll.firstDone.error = "x"
    /\ poll.pollCount >= 2
    /\ PollState(poll) = "Failed"
    /\ poll.outcome.error = "x"

\* C10: when the loop's getResults call returns a ready payload, the loop ends
\* Succeeded with exactly the value getResults returned, whose orders are the
\* orders of the response body, sanitized one by one, in the order received.
C10_ReadyResultsDelivered ==
    LET tk == tasks[PollTask] IN
    (tk.op = "getResults" /\ tk.pc = "done" /\ tk.result.success) =>
        /\ PollState(poll) = "Succeeded"
        /\ poll.outcome = tk.result
        /\ poll.inline = ABSENT
        /\ ~poll.timer
        /\ poll.outcome.data.success = "true"
        /\ Len(poll.outcome.data.orders) = Len(tk.got.raw.orders)
        /\ \A i \in 1..Len(tk.got.raw.orders) :
              poll.outcome.data.orders[i] = sanitizeString(tk.got.raw.orders[i])

C10_OrdersInOrder ==
    /\ PollState(poll) = "Succeeded"
    /\ poll.calledResults
    /\ poll.firstDone.seen /\ poll.firstDone.error = ABSENT /\ poll.firstDone.results = ABSENT
    /\ poll.outcome.data.orders = <<"order a", "x", "order b">>

\* C11: a run makes at most 300 status calls; on the tick after the 300th the run
\* ends TimedOut with the polling-timeout error and status 408, and makes no call.
C11_TickBudget ==
    /\ poll.statusCalls <= 300
    /\ poll.pollCount <= 301
    /\ poll.pollCount <= 300 => poll.statusCalls = poll.pollCount
    /\ poll.pollCount = 301 =>
          /\ poll.statusCalls = 300
          /\ PollState(poll) = "TimedOut"
          /\ poll.outcome.error = "Polling timeout - operation took too long"
          /\ poll.outcome.status = 408
          /\ ~poll.outcome.success
          /\ ~poll.timer
          /\ tasks[PollTask].pc = "done"

C11_TimedOutAfter300 ==
    /\ poll.pollCount = 301
    /\ poll.statusCalls = 300
    /\ PollState(poll) = "TimedOut"
    /\ poll.outcome.status = 408

\* C12: the promise of a run is resolved at most once, and once it is resolved no
\* tick is pending, no call of the run is in flight, and no later step changes the
\* outcome, makes a status or results call or sets a timer.
C12_TerminalIsFinal ==
    /\ [](/\ poll.resolveCalls <= 1
          /\ poll.resolved = (poll.resolveCalls = 1)
          /\ poll.resolved => ~poll.timer /\ tasks[PollTask].pc # "waiting")
    /\ [][poll.resolved =>
            /\ poll'.resolved
            /\ poll'.outcome = poll.outcome
            /\ poll'.inline = poll.inline
            /\ poll'.statusCalls = poll.statusCalls
            /\ poll'.pollCount = poll.pollCount
            /\ ~poll'.timer
            /\ tasks'[PollTask] = tasks[PollTask]]_vars

C12_CancelAfterTerminal ==
    /\ poll.resolved
    /\ poll.cancelledAt \in {"Succeeded", "Failed", "TimedOut"}
    /\ poll.resolveCalls = 1
    /\ ~poll.timer

\* C13: a run that has started ends: its promise is resolved (or the call was
\* rejected at once), given that pending timers fire and requests in flight settle.
C13_RunEnds == poll.started ~> (poll.resolved \/ poll.rejected)

C13_EndedAfterWaiting ==
    /\ poll.resolved
    /\ poll.calledResults
    /\ poll.pollCount >= 3
    /\ PollState(poll) \in {"Succeeded", "Failed", "TimedOut"}

\* C14: when the status call of a tick fails (the request failed, or the response
\* has no is_running), the run ends Failed in that step with the message of that
\* error, and no tick is scheduled.
C14_StatusFailureFails ==
    LET tk == tasks[PollTask] IN
    (tk.op = "getScrapingStatus" /\ tk.pc = "done" /\ ~tk.result.success) =>
        /\ PollState(poll) = "Failed"
        /\ ~poll.timer
        /\ poll.outcome.error = tk.result.error
        /\ poll.outcome.error =
              IF ~tk.got.ok THEN tk.got.msg
              ELSE IF tk.got.data.is_running = ABSENT
              THEN "Missing required field: is_running"
              ELSE "Invalid response format"
        /\ poll.outcome.status = tk.result.status

C14_FailedOnMissingField ==
    /\ PollState(poll) = "Failed"
    /\ poll.pollCount >= 2
    /\ tasks[PollTask].op = "getScrapingStatus"
    /\ tasks[PollTask].got.ok
    /\ poll.outcome.error = "Missing required field: is_running"

\* C15: a status call of the poll loop that fails with a retryable error (no
\* response, or HTTP 5xx) has been attempted 3 times when the loop sees the failure.
C15_StatusPollRetried ==
    LET tk == tasks[PollTask] IN
    (/\ tk.op = "getScrapingStatus" /\ tk.pc = "done" /\ ~tk.got.ok
     /\ \/ tk.got.status >= 500
        \/ tk.got.msg = "Unable to connect to server. Please check if the server is running.")
        => tk.attempt = 3 /\ Len(tk.hist) = 3

\* C16: when the getResults call of the loop fails with a hard error (HTTP 5xx, as
\* opposed to a response that is not ready), the run ends Failed with the message
\* of that error.
C16_ResultsErrorFails ==
    LET tk == tasks[PollTask] IN
    (tk.op = "getResults" /\ tk.pc = "done" /\ ~tk.got.ok /\ tk.got.status >= 500) =>
        /\ PollState(poll) = "Failed"
        /\ poll.outcome.error = tk.got.msg

C18_MalformedNotRetried ==
    \A t \in Tasks : LET tk == tasks[t] IN Retrying(tk) =>
        /\ \A i \in 1..Len(tk.hist) : tk.hist[i] = 200 =>
              i = Len(tk.hist) /\ tk.attempt = i /\ tk.pc = "done"
        /\ (/\ tk.pc = "done" /\ tk.got.ok
            /\ IF tk.op = "checkHealth" THEN tk.got.data.status = ABSENT
               ELSE tk.got.data.message = ABSENT) =>
              /\ ~tk.result.success
              /\ tk.result.error = IF tk.op = "checkHealth"
                                   THEN "Missing required field: status"
                                   ELSE "Missing required field: message"
              /\ tk.result.status = 0
              /\ Len(tk.delays) = tk.attempt - 1

C18_MissingStatusFailsOnce ==
    \E t \in Tasks : /\ tasks[t].op = "checkHealth"
                     /\ tasks[t].pc = "done"
                     /\ tasks[t].hist = <<200>>
                     /\ tasks[t].attempt = 1
                     /\ tasks[t].result.error = "Missing required field: status"

\* C20: when a snapshot has isRunning false, no error and inline results, the run
\* ends Succeeded with those results in that step; when it is the first snapshot
\* with isRunning false, getResults was never called.
C20_InlineResultsDelivered ==
    LET tk == tasks[PollTask] IN
    /\ (/\ tk.op = "getScrapingStatus" /\ tk.pc = "done" /\ tk.result.success
        /\ ~tk.result.isRunning
        /\ tk.result.data.error \in {ABSENT, ""}
        /\ tk.result.data.results \notin {ABSENT, ""}) =>
          /\ PollState(poll) = "Succeeded"
          /\ poll.inline = tk.result.data.results
          /\ poll.outcome.message = "Scraping completed successfully"
          /\ ~poll.timer
    /\ (/\ poll.firstDone.seen
        /\ poll.firstDone.error \in {ABSENT, ""}
        /\ poll.firstDone.results \notin {ABSENT, ""}) =>
          /\ PollState(poll) = "Succeeded"
          /\ poll.inline = poll.firstDone.results
          /\ ~poll.calledResults

C20_SucceededInline ==
    /\ PollState(poll) = "Succeeded"
    /\ poll.inline = "inline results"
    /\ poll.pollCount >= 2
    /\ ~poll.calledResults

C22_TicksSequential ==
    /\ [](/\ poll.pending \in {0, 1}
          /\ poll.timer = (poll.pending = 1)
          /\ ~(poll.timer /\ tasks[PollTask].pc = "waiting")
          /\ poll.statusCalls = IF poll.pollCount > 300 THEN 300 ELSE poll.pollCount)
    /\ [][LET tk == tasks'[PollTask] IN
           (/\ tk # tasks[PollTask] /\ tk.op = "getScrapingStatus" /\ tk.pc = "done"
            /\ tk.result.success /\ tk.result.isRunning) =>
              /\ poll'.pending = 1
              /\ PollState(poll') = "Polling"
              /\ poll'.statusCalls = poll.statusCalls]_vars
    /\ [][poll'.statusCalls # poll.statusCalls =>
             /\ poll'.statusCalls = poll.statusCalls + 1
             /\ poll'.pollCount = poll.pollCount + 1
             /\ tasks[PollTask].pc # "waiting"
             /\ poll.pending = IF poll.started THEN 1 ELSE 0
             /\ poll'.pending = 0]_vars

C22_ThirdTickCalling ==
    /\ poll.statusCalls = 3
    /\ poll.pollCount = 3
    /\ tasks[PollTask].op = "getScrapingStatus"
    /\ tasks[PollTask].pc = "waiting"
    /\ poll.pending = 0
    /\ poll.reported.called /\ poll.reported.isRunning

\* the requests whose promise caller t is waiting for
Awaited(t) ==
    {r \in ReqIds : \E i \in 1..Len(reqs[r].waiters) : reqs[r].waiters[i] = t}

\* C23: the attempts of one makeRequestWithRetry call are sequential: the call
\* awaits at most one request at a time; while attempt k is awaited, the k-1
\* attempts before it have all settled with a failure and k-1 delays have been
\* waited; and attempt k+1 is started only from the backoff that followed the
\* failure of attempt k, when no request of the call is outstanding.
C23_AttemptsSequential ==
    /\ [](\A t \in Tasks : LET tk == tasks[t] IN Retrying(tk) =>
            /\ Awaited(t) = IF tk.pc = "waiting" THEN {tk.req} ELSE {}
            /\ Cardinality({r \in ReqIds : InFlight(r)}) <= 1
            /\ tk.pc = "waiting" =>
                  /\ Len(tk.hist) = tk.attempt - 1
                  /\ Len(tk.delays) = tk.attempt - 1
                  /\ \A i \in 1..Len(tk.hist) : tk.hist[i] # 200
            /\ tk.pc = "backoff" =>
                  /\ Len(tk.hist) = tk.attempt
                  /\ Len(tk.delays) = tk.attempt
                  /\ tk.hist[tk.attempt] # 200)
    /\ [][\A t \in Tasks :
            (Retrying(tasks[t]) /\ tasks'[t].attempt # tasks[t].attempt) =>
               /\ tasks'[t].attempt = tasks[t].attempt + 1
               /\ tasks[t].pc = "backoff"
               /\ Awaited(t) = {}
               /\ \A r \in ReqIds : ~InFlight(r)
               /\ tasks[t].delays[tasks[t].attempt] = retryDelay(tasks[t].attempt)]_vars

C23_ThirdAttemptAlone ==
    /\ tasks[1].pc = "waiting"
    /\ tasks[1].attempt = 3
    /\ tasks[1].hist = <<500, 0>>
    /\ tasks[1].delays = <<1000, 2000>>
    /\ Awaited(1) = {tasks[1].req}
    /\ InFlight(tasks[1].req)

\* C24: when the third attempt of a makeRequestWithRetry call fails, the caller
\* gets the error of that attempt: its message and its status, as makeRequest threw
\* them.
C24_LastErrorSurfaced ==
    \A t \in Tasks : LET tk == tasks[t] IN
        (Retrying(tk) /\ tk.pc = "done" /\ Len(tk.hist) = 3 /\ ~tk.got.ok) =>
            /\ tk.attempt = 3
            /\ ~tk.result.success
            /\ tk.result.error = tk.got.msg
            /\ tk.result.status = tk.got.status
            /\ tk.result.status = tk.hist[3]
            /\ tk.got.name = "ApiError"

C24_ThreeDifferentErrors ==
    /\ tasks[1].pc = "done"
    /\ tasks[1].hist = <<500, 0, 408>>
    /\ tasks[1].result.status = 408
    /\ tasks[1].result.error = "Request timeout - server is taking too long to respond"

\* C25: a caller that attached to the request another caller has in flight gets
\* the outcome in the step in which that one network call settles, not before, and
\* after every caller that attached before it: the callers resume in the order in
\* which they attached.
C25_DeliveredInAttachOrder ==
    /\ [](\A t \in AllTasks : \A j \in tasks[t].joined :
            LET u == j[1] IN
            (tasks[u].attempt = j[2] /\ tasks[u].att = j[3]) =>
               /\ tasks[t].pc = "waiting" =>
                     /\ InFlight(tasks[t].req)
                     /\ tasks[u].pc = "waiting" /\ tasks[u].req = tasks[t].req
               /\ tasks[t].pc = "done" =>
                     /\ tasks[u].pc = "done"
                     /\ 1 <= tasks[u].turn /\ tasks[u].turn < tasks[t].turn)
    /\ [][\A t \in Tasks :
            (tasks[t].pc = "waiting" /\ tasks'[t].pc = "done") =>
               /\ InFlight(tasks[t].req)
               /\ reqs'[tasks[t].req].phase = "free"
               /\ \A u \in Tasks : (tasks[u].pc = "waiting" /\ tasks[u].req = tasks[t].req) =>
                     tasks'[u].pc = "done" /\ tasks'[u].got = tasks'[t].got]_vars

C25_SecondCallerServedSecond ==
    \E t, u \in Tasks :
        /\ <<u, tasks[u].attempt, tasks[t].att>> \in tasks[t].joined
        /\ tasks[t].pc = "done" /\ tasks[u].pc = "done"
        /\ tasks[u].created /\ ~tasks[t].created
        /\ tasks[u].turn = 1 /\ tasks[t].turn = 2
        /\ ~tasks[t].got.ok /\ tasks[t].got = tasks[u].got

\* C26: requests with different keys do not interfere: a caller awaits a request
\* made for its own method and path, callers of different paths never share a
\* request, every entry of the registry leads to the request of its key, and a step
\* in which one request advances or settles leaves every in-flight request of
\* another key as it was: its phase, its registry entry, its waiters and what they
\* have received.
C26_KeysIndependent ==
    /\ [](/\ \A t \in AllTasks : tasks[t].pc = "waiting" =>
                /\ reqs[tasks[t].req].key.url = tasks[t].url
                /\ reqs[tasks[t].req].key.method = tasks[t].options.method
          /\ \A t, u \in AllTasks :
                (/\ tasks[t].pc = "waiting" /\ tasks[u].pc = "waiting"
                 /\ tasks[t].req = tasks[u].req) => tasks[t].url = tasks[u].url
          /\ \A e \in activeRequests : reqs[e[2]].key = e[1]
          /\ \A r \in ReqIds : InFlight(r) => <<reqs[r].key, r>> \in activeRequests)
    /\ [][\A r, q \in ReqIds :
            (/\ InFlight(r) /\ InFlight(q) /\ reqs[r].key # reqs[q].key
             /\ reqs'[r] # reqs[r]) =>
               /\ reqs'[q] = reqs[q]
               /\ <<reqs[q].key, q>> \in activeRequests'
               /\ \A t \in AllTasks : (tasks[t].pc = "waiting" /\ tasks[t].req = q) =>
                     tasks'[t] = tasks[t]]_vars

C26_StatusOutlivesHealth ==
    /\ tasks[1].op = "checkHealth" /\ tasks[1].pc = "done" /\ tasks[1].hist = <<500, 200>>
    /\ tasks[2].op = "getScrapingStatus" /\ tasks[2].pc = "waiting"
    /\ tasks[2].created
    /\ reqs[tasks[2].req].phase = "readingOk"
    /\ <<reqs[tasks[2].req].key, tasks[2].req>> \in activeRequests

\* C27: whatever progress the status response carries, the progress getScrapingStatus
\* returns is a number from 0 to 100: a number below 0, a string that is no number
\* and a missing value give 0, a number above 100 gives 100, a number in between is
\* kept; the callback is handed the same value.
C27_ProgressClamped ==
    \A t \in {1, PollTask} :
    LET tk == tasks[t]
        sent == tk.got.raw
    IN (tk.op = "getScrapingStatus" /\ tk.pc = "done") =>
          /\ tk.result.progress \in 0..100
          /\ ~tk.result.success => tk.result.progress = 0
          /\ tk.result.success =>
                /\ (sent.progressKind = "num" /\ sent.progress < 0) => tk.result.progress = 0
                /\ (sent.progressKind = "num" /\ sent.progress > 100) => tk.result.progress = 100
                /\ (sent.progressKind = "num" /\ sent.progress \in 0..100) =>
                      tk.result.progress = sent.progress
                /\ sent.progressKind \in {"text", ABSENT} => tk.result.progress = 0
                /\ t = PollTask =>
                      poll.reported.called /\ poll.reported.progress = tk.result.progress

C27_NegativeReportedAsZero ==
    /\ tasks[PollTask].op = "getScrapingStatus" /\ tasks[PollTask].pc = "done"
    /\ tasks[PollTask].got.raw.progressKind = "num"
    /\ tasks[PollTask].got.raw.progress = -5
    /\ poll.reported.called /\ poll.reported.isRunning
    /\ poll.reported.progress = 0
    /\ poll.timer
    /\ tasks[1].pc = "done" /\ tasks[1].got.raw.progressKind = "num"
    /\ tasks[1].got.raw.progress = 150 /\ tasks[1].result.progress = 100

\* what getScrapingStatus returned to t for a response without a message key
NoMessageStatus(t) ==
    /\ tasks[t].op = "getScrapingStatus" /\ tasks[t].pc = "done"
    /\ tasks[t].result.success
    /\ tasks[t].got.raw.message = ABSENT

\* C28 (as amended): when the status response has no message field, getScrapingStatus
\* returns 'Status retrieved successfully' as message.
C28_MessageDefaults ==
    \A t \in {1, PollTask} :
        NoMessageStatus(t) => tasks[t].result.message = "Status retrieved successfully"

C28_StatusWithoutMessage ==
    /\ NoMessageStatus(1)
    /\ tasks[1].result.isRunning
    /\ tasks[1].result.message = "Status retrieved successfully"

\* C28 (as stated): when the status response has no message field, getScrapingStatus
\* returns the empty string as message.
C28_MessageDefaultsToEmpty ==
    \A t \in {1, PollTask} : NoMessageStatus(t) => tasks[t].result.message = ""

\* C29: the delay of every timer a run sets is the interval asked for, clamped:
\* 1000 for a request below 1000, 10000 for a request above 10000, the request
\* itself in between, and 2000 when the call asks for none; the value is fixed when
\* the run starts and is the same for every tick.
C29_IntervalClamped ==
    /\ []((poll.started /\ ~poll.rejected) =>
            /\ poll.interval \in 1000..10000
            /\ ~poll.requested.given => poll.interval = 2000
            /\ poll.requested.given =>
                  /\ poll.requested.ms < 1000 => poll.interval = 1000
                  /\ poll.requested.ms > 10000 => poll.interval = 10000
                  /\ poll.requested.ms \in 1000..10000 => poll.interval = poll.requested.ms
            /\ poll.timer => poll.delay = poll.interval)
    /\ [][poll.started => poll'.interval = poll.interval]_vars

C29_ShortRequestRaised ==
    /\ poll.requested = [given |-> TRUE, ms |-> 500]
    /\ poll.pollCount = 3
    /\ poll.timer
    /\ poll.delay = 1000

\* C30: whatever becomes of the stop request, stopScraping returns a result: a
\* success for a response, and otherwise a failure with the message and the status
\* of the error; and handleCancel leaves the app idle, not loading and without an
\* error, with no stop call of its own left waiting.
C30_StopBestEffort ==
    /\ [](\A t \in AllTasks :
            (tasks[t].op = "stopScraping" /\ tasks[t].pc = "done") =>
               /\ tasks[t].result.returned
               /\ tasks[t].result.success = tasks[t].got.ok
               /\ ~tasks[t].got.ok =>
                     /\ tasks[t].result.error = tasks[t].got.msg
                     /\ tasks[t].result.status = tasks[t].got.status)
    /\ [][(\/ poll.cancelledAt = "never" /\ poll'.cancelledAt # "never"
           \/ app.loading /\ ~app'.loading /\ tasks'[SubmitTask] = tasks[SubmitTask]) =>
             /\ app'.appState = "idle"
             /\ ~app'.loading
             /\ app'.error = ""
             /\ app'.jobId = "null"
             /\ tasks'[CancelTask].pc # "waiting"]_vars

C30_StopTimedOutCancelIdle ==
    /\ tasks[1].op = "stopScraping" /\ tasks[1].pc = "done"
    /\ tasks[1].got = timeoutError
    /\ tasks[1].result.returned /\ ~tasks[1].result.success
    /\ tasks[1].result.status = 408
    /\ poll.cancelledAt # "never"
    /\ app.appState = "idle" /\ ~app.loading
    /\ tasks[SubmitTask].pc = "waiting"

\* C31: a health check that fails returns a failure result, which App records as
\* serverHealth with a warning text; the step leaves appState and loading as they
\* were, so an app that has not been used stays idle with the date picker shown,
\* and the request of a submission made meanwhile is not touched.
C31_HealthFailureReported ==
    /\ [][(tasks'[HealthTask] # tasks[HealthTask] /\ tasks'[HealthTask].pc = "done"
           /\ ~tasks'[HealthTask].result.success) =>
             /\ tasks'[HealthTask].result.returned
             /\ tasks'[HealthTask].result.error =
                   IF tasks'[HealthTask].got.ok THEN "Missing required field: status"
                   ELSE tasks'[HealthTask].got.msg
             /\ app'.serverHealth = "failure"
             /\ app'.error = "Service is temporarily unavailable. Please try again later."
             /\ app'.appState = app.appState
             /\ app'.loading = app.loading
             /\ tasks'[SubmitTask] = tasks[SubmitTask]]_vars
    /\ []((app.serverHealth = "failure" /\ tasks[SubmitTask].pc = "idle") =>
            app.appState = "idle" /\ ~app.loading)

C31_StartSucceedsAfterHealthFailed ==
    /\ app.serverHealth = "failure"
    /\ app.healthAtSubmit = "failure"
    /\ tasks[HealthTask].pc = "done"
    /\ tasks[HealthTask].hist = <<500, 500, 500>>
    /\ tasks[SubmitTask].op = "startScraping"
    /\ tasks[SubmitTask].pc = "done"
    /\ tasks[SubmitTask].result.success

\* the fields an operation is said to require are in the response
RequiredFieldsPresent(op, response) ==
    /\ response.kind = "json"
    /\ CASE op = "checkHealth" -> response.status # ABSENT
         [] op = "startScraping" -> response.message # ABSENT
         [] op = "getScrapingStatus" -> response.is_running # ABSENT
         [] op = "getResults" -> response.success = "true" /\ response.ordersIsArray
         [] OTHER -> response.message # ABSENT

\* C32: an operation that returned success got a response with its required
\* fields: status for checkHealth, message for startScraping, is_running for
\* getScrapingStatus, success true and an orders array for getResults, message for
\* stopScraping.
C32_SuccessNeedsFields ==
    \A t \in AllTasks :
        (tasks[t].pc = "done" /\ tasks[t].result.success) =>
            tasks[t].got.ok /\ RequiredFieldsPresent(tasks[t].op, tasks[t].got.data)

\* C33: a step in which the timeout of a request fires while its fetch is pending
\* settles the request: the request is gone from the registry and no response can
\* arrive for it, and every caller attached to it resumes with the timeout error,
\* status 408, and returns a failure; no caller that got a 408 reports success.
C33_TimeoutSettlesAll ==
    /\ [][\A r \in ReqIds : TimeoutFires(r, FALSE) =>
            /\ reqs'[r].phase = "free"
            /\ \A e \in activeRequests' : e[1] # reqs[r].key
            /\ \A i \in 1..Len(reqs[r].waiters) :
                  LET tk == tasks'[reqs[r].waiters[i]] IN
                  /\ tk.pc = "done"
                  /\ ~tk.got.ok
                  /\ tk.got.status = 408
                  /\ tk.got.msg = "Request timeout - server is taking too long to respond"
                  /\ tk.result.returned /\ ~tk.result.success
                  /\ tk.result.status = 408
                  /\ tk.result.error = tk.got.msg]_vars
    /\ [](\A t \in AllTasks :
            (tasks[t].pc = "done" /\ tasks[t].got.status = 408) => ~tasks[t].result.success)

C33_BothCallersTimedOut ==
    \E t, u \in Tasks :
        /\ <<u, tasks[u].attempt, tasks[t].att>> \in tasks[t].joined
        /\ tasks[t].pc = "done" /\ tasks[u].pc = "done"
        /\ tasks[u].got.status = 408 /\ tasks[t].got.status = 408
        /\ tasks[t].result.status = 408 /\ ~tasks[t].result.success
        /\ activeRequests = {}

\* C34: with a callback given, a step in which a status call of the loop succeeds
\* calls the callback exactly once, with the snapshot of that call (isRunning,
\* progress, and the message and error of the response), at a point where the
\* tick has neither resolved the promise, nor set a timer, nor called getResults;
\* a step in which a status call fails, and every other step, calls no callback.
\* Snapshots are handed over in the step that receives them, one status call at a
\* time, so the callback has been called once per successful status call so far.
C34_CallbackOncePerSnapshot ==
    /\ [][LET old == tasks[PollTask]
              tk == tasks'[PollTask]
              completes == old.op = "getScrapingStatus" /\ old.pc = "waiting" /\ tk # old
              kept == tk.op = "getScrapingStatus" /\ tk.pc = "done"
          IN /\ (completes /\ kept /\ tk.result.success /\ poll.onProgress # "undefined") =>
                   /\ poll'.progressCalls = poll.progressCalls + 1
                   /\ poll'.reported.called
                   /\ poll'.reported.isRunning = tk.result.isRunning
                   /\ poll'.reported.progress = tk.result.progress
                   /\ poll'.reported.message = tk.result.data.message
                   /\ poll'.reported.error = tk.result.data.error
                   /\ poll'.reported.undecided
             /\ (completes /\ tk.op = "getResults") =>
                   /\ poll.onProgress # "undefined" =>
                         /\ poll'.progressCalls = poll.progressCalls + 1
                         /\ poll'.reported.called
                         /\ ~poll'.reported.isRunning
                         /\ poll'.reported.undecided
             /\ (completes /\ kept /\ ~tk.result.success) =>
                   /\ poll'.progressCalls = poll.progressCalls
                   /\ poll'.reported = poll.reported
             /\ poll'.progressCalls # poll.progressCalls =>
                   /\ completes
                   /\ poll.onProgress # "undefined"
                   /\ kept => tk.result.success]_vars
    /\ [](LET tk == tasks[PollTask]
              unanswered == IF tk.op = "getScrapingStatus"
                               /\ (tk.pc = "waiting" \/ (tk.pc = "done" /\ ~tk.result.success))
                            THEN 1 ELSE 0
          IN (poll.started /\ ~poll.rejected) =>
                poll.progressCalls = IF poll.onProgress = "undefined" THEN 0
                                     ELSE poll.statusCalls - unanswered)

C34_ThirdSnapshotDelivered ==
    /\ poll.onProgress = "function"
    /\ poll.progressCalls = 3
    /\ poll.statusCalls = 3
    /\ tasks[PollTask].op = "getScrapingStatus" /\ tasks[PollTask].pc = "done"
    /\ poll.reported.isRunning /\ poll.reported.undecided
    /\ poll.reported.progress = tasks[PollTask].result.progress
    /\ poll.reported.message = tasks[PollTask].result.data.message
    /\ poll.timer

\* the value a body text spells once parsed and sanitized, whatever its key order
JsonValue(body) == [y |-> body.y, m |-> body.m, d |-> body.d]

C36_CancelledRunSilent ==
    [][(/\ tasks[SubmitTask].pc \notin {"idle", "done"}
        /\ app.appState = "idle" /\ ~app.loading
        /\ poll.cancelledAt # "never")
          => app'.appState \notin {"success", "error"}]_vars

\* the messages of the errors the operations raise themselves
LocalErrors ==
    {"Invalid response format", "Results not ready", MissingField("status"),
     MissingField("message"), MissingField("is_running"),
     "Date is required", "Invalid date format. Please use YYYY-MM-DD format.",
     "Invalid date provided", "Date cannot be in the future", "Date cannot be before 2010"}

\* C37: an operation that has ended has returned a result, never thrown: success
\* is true only on a response that arrived, and a result with success false
\* carries in error the message of the error the operation caught, that of the
\* failed request with its status or that of the check the operation made itself.
C37_OperationsAlwaysReturn ==
    \A t \in Tasks :
        LET tk == tasks[t] IN
        tk.pc = "done" =>
            /\ tk.op \in {"checkHealth", "startScraping"} \cup DirectOps
            /\ tk.result.returned
            /\ tk.result.success \in BOOLEAN
            /\ tk.result.success => tk.got.ok
            /\ ~tk.result.success =>
                  IF tk.got # NoOutcome /\ ~tk.got.ok
                  THEN tk.result.error = tk.got.msg /\ tk.result.status = tk.got.status
                  ELSE tk.result.error \in LocalErrors

C37_EveryKindOfFailureReturned ==
    /\ tasks[1].op = "startScraping" /\ tasks[1].pc = "done"
    /\ tasks[1].attempt = 3 /\ tasks[1].got.status = 0
    /\ tasks[1].result.returned /\ ~tasks[1].result.success
    /\ tasks[1].result.error =
          "Unable to connect to server. Please check if the server is running."
    /\ tasks[2].op = "getResults" /\ tasks[2].pc = "done" /\ tasks[2].got.ok
    /\ tasks[2].result.returned /\ ~tasks[2].result.success
    /\ tasks[2].result.error = "Results not ready"

\* C38: a request that has settled, on whatever path, has no timer pending: a
\* timer is pending only for a request whose fetch has not answered, and the
\* step that fires a timer acts on such a request only.
C38_NoTimerAfterSettle ==
    /\ [](\A r \in ReqIds : reqs[r].phase \in {"free", "settled"} => ~reqs[r].timer)
    /\ [](\A r \in ReqIds : reqs[r].timer => reqs[r].phase = "fetching")
    /\ [][\A r \in ReqIds : TimeoutFires(r, FALSE) =>
              reqs[r].phase = "fetching" /\ reqs[r].waiters # <<>>]_vars

C38_SettledOnTwoPaths ==
    /\ tasks[1].pc = "done" /\ tasks[1].got.ok /\ tasks[1].result.success
    /\ tasks[2].pc = "done" /\ ~tasks[2].got.ok /\ tasks[2].got.status = 0
    /\ tasks[2].got.msg =
          "Unable to connect to server. Please check if the server is running."
    /\ tasks[1].att # tasks[2].att
    /\ \A r \in ReqIds : reqs[r].phase = "free" /\ ~reqs[r].timer

\* C39: a call of pollScrapingProgress whose onProgress is given and is not a
\* function is rejected with the error 'onProgress must be a function', status
\* 400, and nothing of the loop has run or ever runs: no tick is counted, no
\* status or results call is made, no timer is set, the promise is not resolved.
C39_NonFunctionCallbackRefused ==
    /\ [](poll.started /\ poll.onProgress \notin {"undefined", "function", "throwing"} =>
            /\ poll.rejected
            /\ ~poll.outcome.returned /\ ~poll.outcome.success
            /\ poll.outcome.status = 400
            /\ poll.outcome.error = "onProgress must be a function"
            /\ poll.pollCount = 0 /\ poll.statusCalls = 0 /\ ~poll.calledResults
            /\ ~poll.timer /\ poll.pending = 0
            /\ ~poll.resolved /\ poll.resolveCalls = 0
            /\ tasks[PollTask].pc = "idle"
            /\ ~poll.reported.called)
    /\ [](poll.rejected => poll.onProgress \notin {"undefined", "function", "throwing"})

C39_StringCallbackRefused ==
    /\ poll.started /\ poll.rejected
    /\ poll.onProgress = "job-1"
    /\ poll.outcome.status = 400
    /\ poll.statusCalls = 0 /\ ~poll.timer
    /\ activeRequests = {}

\* C19: when startScraping has returned success to handleDateSubmit, the run has
\* gone on to poll with its progress callback and the app is not in error.
C19_AcceptedStartPolls ==
    LET tk == tasks[SubmitTask] IN
    (tk.op = "startScraping" /\ tk.pc = "done" /\ tk.result.success) =>
        /\ poll.started
        /\ poll.onProgress = "function"
        /\ app.appState # "error"

====
